---- MODULE Spec2Model ----
(***************************************************************************)
(* rest-layer: the resource operation pipeline (resource/middleware.go,    *)
(* resource/resource.go, resource/util.go) and the PUT handler on an item  *)
(* (rest/method_item_put.go), as state machines.                           *)
(*                                                                         *)
(* A handler is an operator from its arguments, the storage content and    *)
(* the behaviour of the user's callbacks in this call (env) to its         *)
(* results, the storage content afterwards and the trace of the calls it   *)
(* made.  Hooks, interceptors and the storage backend are collaborators of *)
(* the pipeline: what they answer is chosen by the actions.                *)
(***************************************************************************)
EXTENDS Integers, Sequences, FiniteSets, TLC

\* ------------------------------------------------------------------ bounds
MaxRegs == 2      \* interceptors registered through Chain, all kinds together
MaxItems == 2     \* items handed to one Insert
MaxTime == 1      \* time stamps are 0..MaxTime
MaxIds == 2       \* ids handed to one MultiGet

\* F of x, with x computed once.
With(x, F(_)) == F(x)

\* ------------------------------------------------------------------ values
Ids == {"i1", "i2"}
Vals == {"x", "y"}
Times == 0..MaxTime
Fields == {"a", "id"}
\* An order in which a range over a payload meets its keys.
SortedKeys == <<"a", "id">>
\* A key that the map does not hold.
Absent == "absent"
\* A Go value encoding/json has no encoding for (a channel, a func, NaN).
Unmarshalable == "chan"
Tombstone == "tombstone"

Payloads == [Fields -> Vals \cup Ids \cup {Absent, Unmarshalable}]
EmptyPayload == [f \in Fields |-> Absent]
Doc(id, a) == [f \in Fields |-> IF f = "id" THEN id ELSE a]

\* ------------------------------------------------------------------ errors
Err(t, code, msg) == [t |-> t, code |-> code, msg |-> msg]
Nil == Err("nil", 0, "")
context_Canceled == Err("context", 0, "context canceled")
context_DeadlineExceeded == Err("context", 0, "context deadline exceeded")
resource_ErrNotFound == Err("resource", 0, "Not Found")
resource_ErrForbidden == Err("resource", 0, "Forbidden")
resource_ErrConflict == Err("resource", 0, "Conflict")
resource_ErrNotImplemented == Err("resource", 0, "Not Implemented")
resource_ErrNoStorage == Err("resource", 0, "No Storage")
\* The error of json.Marshal on an unsupported value.
json_UnsupportedTypeError == Err("other", 0, "json: unsupported type")
\* An error of the user's own, as a hook may return.
errHook == Err("other", 0, "hook")

\* -------------------------------------------------------------------- Item
NoEtag == <<>>
Item(id, etag, updated, payload) ==
    [nil |-> FALSE, ID |-> id, ETag |-> etag, Updated |-> updated, Payload |-> payload]
\* A nil *Item.
NilItem == [nil |-> TRUE, ID |-> "", ETag |-> NoEtag, Updated |-> 0, Payload |-> EmptyPayload]
ItemList(items, total) == [nil |-> FALSE, Items |-> items, Total |-> total]
\* A nil *ItemList.
NilList == [nil |-> TRUE, Items |-> <<>>, Total |-> 0]

\* ----------------------------------------------------------------- GenEtag
\* The bytes of a character of the names and keys the model uses.
Byte(c) ==
    CASE c = "!" -> 33 [] c = "-" -> 45 [] c = "." -> 46 [] c = "1" -> 49 [] c = ":" -> 58
      [] c = "B" -> 66 [] c = "_" -> 95 [] c = "a" -> 97 [] c = "b" -> 98
      [] c = "d" -> 100 [] c = "i" -> 105

\* x < y on Go strings: byte-wise, a proper prefix first.
RECURSIVE Less(_, _)
Less(x, y) ==
    IF y = <<>> THEN FALSE
    ELSE IF x = <<>> THEN TRUE
    ELSE IF Byte(Head(x)) # Byte(Head(y)) THEN Byte(Head(x)) < Byte(Head(y))
    ELSE Less(Tail(x), Tail(y))

\* The key of a payload as the sequence of its bytes.
KeyBytes(f) == IF f = "id" THEN <<"i", "d">> ELSE <<f>>

\* The keys a range over the map meets, order being the order in which this
\* run of the program iterates its maps.
mapKeys(payload, order) == SelectSeq(order, LAMBDA f : payload[f] # Absent)

\* sort.Strings
RECURSIVE insertSorted(_, _)
insertSorted(keys, k) ==
    IF keys = <<>> THEN <<k>>
    ELSE IF Less(KeyBytes(k), KeyBytes(Head(keys))) THEN <<k>> \o keys
    ELSE <<Head(keys)>> \o insertSorted(Tail(keys), k)
RECURSIVE sort_Strings(_)
sort_Strings(keys) ==
    IF keys = <<>> THEN <<>> ELSE insertSorted(sort_Strings(Tail(keys)), Head(keys))

RECURSIVE marshalKeys(_, _)
marshalKeys(payload, keys) ==
    IF keys = <<>> THEN <<>>
    ELSE (IF payload[Head(keys)] = Absent THEN <<>>
          ELSE <<Head(keys), payload[Head(keys)]>>)
         \o marshalKeys(payload, Tail(keys))

\* json.Marshal that writes the keys as the range over the map meets them.
json_MarshalUnsorted(payload, order) ==
    IF \E f \in Fields : payload[f] = Unmarshalable
    THEN [b |-> <<>>, err |-> json_UnsupportedTypeError]
    ELSE [b |-> <<"{">> \o marshalKeys(payload, mapKeys(payload, order)) \o <<"}">>,
          err |-> Nil]

\* json.Marshal of a map: the keys are collected and sorted, then written.
json_MarshalRanged(payload, order) ==
    IF \E f \in Fields : payload[f] = Unmarshalable
    THEN [b |-> <<>>, err |-> json_UnsupportedTypeError]
    ELSE [b |-> <<"{">> \o marshalKeys(payload, sort_Strings(mapKeys(payload, order)))
                \o <<"}">>,
          err |-> Nil]

\* The order of the range is immaterial to what follows (C31): one is taken.
json_Marshal(payload) == json_MarshalRanged(payload, SortedKeys)

\* The digest of a byte string: one value per byte string (no collisions).
md5_Sum(b) == <<"md5", b>>

\* GenEtag in a run that iterates the payload in the given order.
GenEtagRanged(payload, order) ==
    LET m == json_MarshalRanged(payload, order)
    IN  IF m.err # Nil THEN [etag |-> NoEtag, err |-> m.err]
        ELSE [etag |-> md5_Sum(m.b), err |-> Nil]

GenEtag(payload) ==
    LET m == json_Marshal(payload)
    IN  IF m.err # Nil THEN [etag |-> NoEtag, err |-> m.err]
        ELSE [etag |-> md5_Sum(m.b), err |-> Nil]

\* recalcEtag that hashes and forgets to write the hash into the item.
RECURSIVE recalcEtagNoWrite(_)
recalcEtagNoWrite(items) ==
    IF items = <<>> THEN [items |-> <<>>, err |-> Nil]
    ELSE LET v == Head(items)
             h == GenEtag(v.Payload)
         IN  IF (~v.nil) /\ h.err # Nil THEN [items |-> items, err |-> h.err]
             ELSE LET rest == recalcEtagNoWrite(Tail(items))
                  IN  [items |-> <<v>> \o rest.items, err |-> rest.err]

\* The items after the loop (those before a failing one have their new ETag)
\* and the error.
RECURSIVE recalcEtag(_)
recalcEtag(items) ==
    IF items = <<>> THEN [items |-> <<>>, err |-> Nil]
    ELSE LET v == Head(items)
         IN  IF v.nil
             THEN LET rest == recalcEtag(Tail(items))
                  IN  [items |-> <<v>> \o rest.items, err |-> rest.err]
             ELSE LET h == GenEtag(v.Payload)
                  IN  IF h.err # Nil THEN [items |-> items, err |-> h.err]
                      ELSE LET rest == recalcEtag(Tail(items))
                           IN  [items |-> <<[v EXCEPT !.ETag = h.etag]>> \o rest.items,
                                err |-> rest.err]

\* ----------------------------------------------------------------- storage
\* The storage backend behind storageWrapper: one document per id, a nil item
\* where there is none.  A call made under a cancelled or expired context
\* returns the context's error and does nothing (fault); Update and Delete
\* compare the expected-current item with the stored one.
Stored(i, a) == Item(i, GenEtag(Doc(i, a)).etag, 0, Doc(i, a))
Stores == {st \in [Ids -> {NilItem} \cup {Stored(i, a) : i \in Ids, a \in Vals}] :
              \A i \in Ids : st[i].nil \/ st[i].ID = i}

Query(pred, limit) == [Predicate |-> pred, Limit |-> limit]
\* The predicate is the id looked up, or "*" for every document; a query of
\* an item route may hold a second predicate, on the field "a" (Filter).
Match(st, q) ==
    {i \in Ids : /\ ~st[i].nil
                 /\ q.Predicate \in {"*", i}
                 /\ "Filter" \in DOMAIN q => st[i].Payload["a"] = q.Filter}

RECURSIVE listOf(_, _, _)
listOf(st, ids, order) ==
    IF order = <<>> THEN <<>>
    ELSE (IF Head(order) \in ids THEN <<st[Head(order)]>> ELSE <<>>)
         \o listOf(st, ids, Tail(order))

IdOrder == <<"i1", "i2">>

storage_Get(st, id, fault) ==
    IF fault # Nil THEN [item |-> NilItem, err |-> fault]
    ELSE IF st[id].nil THEN [item |-> NilItem, err |-> resource_ErrNotFound]
    ELSE [item |-> st[id], err |-> Nil]

\* withTotal: whether this backend computes the total of a Find.
storage_Find(st, q, fault, withTotal) ==
    IF fault # Nil THEN [list |-> NilList, err |-> fault]
    ELSE LET all == listOf(st, Match(st, q), IdOrder)
             win == IF q.Limit >= 0 /\ q.Limit < Len(all) THEN SubSeq(all, 1, q.Limit) ELSE all
         IN  [list |-> ItemList(win, IF withTotal THEN Len(all) ELSE -1), err |-> Nil]

\* countErr: resource_ErrNotImplemented when the backend is no Counter.
storage_Count(st, q, fault, countErr) ==
    IF fault # Nil THEN [n |-> -1, err |-> fault]
    ELSE IF countErr # Nil THEN [n |-> -1, err |-> countErr]
    ELSE [n |-> Cardinality(Match(st, q)), err |-> Nil]

storage_Insert(st, items, fault) ==
    LET real == {k \in 1..Len(items) : ~items[k].nil}
    IN  IF fault # Nil THEN [store |-> st, err |-> fault]
        ELSE IF \/ \E k \in real : items[k].ID \notin Ids \/ ~st[items[k].ID].nil
                \/ \E k, l \in real : k # l /\ items[k].ID = items[l].ID
        THEN [store |-> st, err |-> resource_ErrConflict]
        ELSE [store |-> [i \in Ids |->
                           IF \E k \in real : items[k].ID = i
                           THEN items[CHOOSE k \in real : items[k].ID = i]
                           ELSE st[i]],
              err |-> Nil]

storage_Update(st, item, original, fault) ==
    IF fault # Nil THEN [store |-> st, err |-> fault]
    ELSE IF original.ID \notin Ids \/ st[original.ID].nil
    THEN [store |-> st, err |-> resource_ErrNotFound]
    ELSE IF st[original.ID].ETag # original.ETag
    THEN [store |-> st, err |-> resource_ErrConflict]
    ELSE [store |-> [st EXCEPT ![original.ID] = item], err |-> Nil]

storage_Delete(st, item, fault) ==
    IF fault # Nil THEN [store |-> st, err |-> fault]
    ELSE IF item.ID \notin Ids \/ st[item.ID].nil
    THEN [store |-> st, err |-> resource_ErrNotFound]
    ELSE IF st[item.ID].ETag # item.ETag
    THEN [store |-> st, err |-> resource_ErrConflict]
    ELSE [store |-> [st EXCEPT ![item.ID] = NilItem], err |-> Nil]

storage_Clear(st, q, fault) ==
    IF fault # Nil THEN [store |-> st, n |-> 0, err |-> fault]
    ELSE [store |-> [i \in Ids |-> IF i \in Match(st, q) THEN NilItem ELSE st[i]],
          n |-> Cardinality(Match(st, q)), err |-> Nil]

\* ------------------------------------------------------------------- hooks
\* What the event handlers attached with Use do in one call:
\*   preErr    the error the pre-hook returns (Nil: none),
\*   preEdit   whether the pre-hook edits the payload of the item(s) it is given,
\*   postErr   the error the post-hook writes through its *error (Keep: it
\*             leaves the error alone),
\*   postEdit  whether the post-hook edits the payload of the item(s),
\*   fault     the context's error at the storage call (Nil: context alive),
\*   withTotal, countErr   the backend's Find and Count capabilities.
\*   swap      whether the outermost interceptor of a write (if one is
\*             registered) returns items of its own in place of the items
\*             next returned.
\* Hooks treat the original of an Update as read-only.
Keep == Err("keep", 0, "")
Env(preErr, preEdit, postErr, postEdit, fault, withTotal, countErr) ==
    [preErr |-> preErr, preEdit |-> preEdit, postErr |-> postErr, postEdit |-> postEdit,
     fault |-> fault, withTotal |-> withTotal, countErr |-> countErr, swap |-> FALSE]
Envs == {Env(a, b, c, d, e, TRUE, Nil) :
            a \in {Nil, resource_ErrForbidden}, b \in BOOLEAN,
            c \in {Keep, Nil, errHook}, d \in BOOLEAN,
            e \in {Nil, context_Canceled}}
FindEnvs == {Env(a, FALSE, c, d, e, t, n) :
            a \in {Nil, resource_ErrForbidden},
            c \in {Keep, Nil, errHook}, d \in BOOLEAN,
            e \in {Nil, context_Canceled}, t \in BOOLEAN,
            n \in {Nil, resource_ErrNotImplemented}}
\* No event handler attached, a backend that answers.
NoHooks == Env(Nil, FALSE, Keep, FALSE, Nil, TRUE, Nil)

\* An edit always changes the payload.
Edit(item) ==
    IF item.nil THEN item
    ELSE [item EXCEPT !.Payload = [f \in Fields |->
                                      IF f # "a" THEN item.Payload[f]
                                      ELSE IF item.Payload[f] = "x" THEN "y" ELSE "x"]]
EditAll(items) == [k \in 1..Len(items) |-> Edit(items[k])]

hooks_pre(items, env) ==
    [items |-> IF env.preEdit THEN EditAll(items) ELSE items, err |-> env.preErr]
hooks_post(items, err, env) ==
    [items |-> IF env.postEdit THEN EditAll(items) ELSE items,
     err |-> IF env.postErr = Keep THEN err ELSE env.postErr]

\* ------------------------------------------------------------------- trace
\* One call made by a handler: ev is "enter"/"exit" (an interceptor), "pre",
\* "hash", "storage" or "post"; items, orig, n and inErr are what the call
\* received, err what it returned.
Event(ev, op) ==
    [ev |-> ev, op |-> op, mw |-> 0, items |-> <<>>, orig |-> NilItem, n |-> -1,
     q |-> Query("*", -1), inErr |-> Nil, err |-> Nil]


\* What a handler hands back: the items (Get, Insert, Update, Delete: the item
\* or items), the list (Find), the count (Clear), the error, the storage
\* content afterwards and the calls made.
Res(items, list, n, err, store, trace) ==
    [items |-> items, list |-> list, n |-> n, err |-> err, store |-> store, trace |-> trace]

EvPre(op, items, orig, q, err) ==
    [Event("pre", op) EXCEPT !.items = items, !.orig = orig, !.q = q, !.err = err]
EvHash(op, items, err) ==
    [Event("hash", op) EXCEPT !.items = items, !.err = err]
EvStorage(op, items, orig, q, n, err) ==
    [Event("storage", op) EXCEPT !.items = items, !.orig = orig, !.q = q, !.n = n, !.err = err]
EvPost(op, items, orig, q, n, inErr, err) ==
    [Event("post", op) EXCEPT !.items = items, !.orig = orig, !.q = q, !.n = n,
                              !.inErr = inErr, !.err = err]

\* -------------------------------------------------------- default handlers
onGetMiddlewareDefault(st, id, env) ==
    LET pre == hooks_pre(<<>>, env)
        sto == IF pre.err = Nil THEN storage_Get(st, id, env.fault)
               ELSE [item |-> NilItem, err |-> pre.err]
        post == hooks_post(<<sto.item>>, sto.err, env)
    IN  Res(post.items, NilList, -1, post.err, st,
            <<EvPre("Get", <<>>, NilItem, Query(id, -1), pre.err)>>
            \o (IF pre.err = Nil
                THEN <<EvStorage("Get", <<sto.item>>, NilItem, Query(id, -1), -1, sto.err)>>
                ELSE <<>>)
            \o <<EvPost("Get", <<sto.item>>, NilItem, Query(id, -1), -1, sto.err, post.err)>>)

\* The same as onFindMiddlewareDefault with the count request made with the
\* query as it came, window included.
onFindMiddlewareDefaultWindowedCount(st, q, forceTotal, env) ==
    LET pre == hooks_pre(<<>>, env)
        f == storage_Find(st, q, env.fault, env.withTotal)
        counts == pre.err = Nil /\ f.err = Nil /\ f.list.Total = -1 /\ forceTotal
        cq == q
        c == storage_Count(st, cq, env.fault, env.countErr)
        list == IF pre.err # Nil THEN NilList
                ELSE IF counts THEN [f.list EXCEPT !.Total = c.n]
                ELSE f.list
        err == IF pre.err # Nil THEN pre.err ELSE IF counts THEN c.err ELSE f.err
        post == hooks_post(list.Items, err, env)
        out == IF list.nil THEN list ELSE [list EXCEPT !.Items = post.items]
    IN  Res(out.Items, out, out.Total, post.err, st,
            <<EvPre("Find", <<>>, NilItem, q, pre.err)>>
            \o (IF pre.err = Nil
                THEN <<EvStorage("Find", f.list.Items, NilItem, q, f.list.Total, f.err)>>
                ELSE <<>>)
            \o (IF counts
                THEN <<EvStorage("Count", <<>>, NilItem, cq, c.n, c.err)>>
                ELSE <<>>)
            \o <<EvPost("Find", list.Items, NilItem, q, list.Total, err, post.err)>>)

onFindMiddlewareDefault(st, q, forceTotal, env) ==
    LET pre == hooks_pre(<<>>, env)
        f == storage_Find(st, q, env.fault, env.withTotal)
        counts == pre.err = Nil /\ f.err = Nil /\ f.list.Total = -1 /\ forceTotal
        cq == Query(q.Predicate, -1)
        c == storage_Count(st, cq, env.fault, env.countErr)
        list == IF pre.err # Nil THEN NilList
                ELSE IF counts THEN [f.list EXCEPT !.Total = c.n]
                ELSE f.list
        err == IF pre.err # Nil THEN pre.err ELSE IF counts THEN c.err ELSE f.err
        post == hooks_post(list.Items, err, env)
        out == IF list.nil THEN list ELSE [list EXCEPT !.Items = post.items]
    IN  Res(out.Items, out, out.Total, post.err, st,
            <<EvPre("Find", <<>>, NilItem, q, pre.err)>>
            \o (IF pre.err = Nil
                THEN <<EvStorage("Find", f.list.Items, NilItem, q, f.list.Total, f.err)>>
                ELSE <<>>)
            \o (IF counts
                THEN <<EvStorage("Count", <<>>, NilItem, cq, c.n, c.err)>>
                ELSE <<>>)
            \o <<EvPost("Find", list.Items, NilItem, q, list.Total, err, post.err)>>)

onInsertMiddlewareDefault(st, items, env) ==
    With(hooks_pre(items, env), LAMBDA pre :
    With(IF pre.err = Nil THEN recalcEtag(pre.items) ELSE pre, LAMBDA h :
    With(IF h.err = Nil THEN storage_Insert(st, h.items, env.fault)
         ELSE [store |-> st, err |-> h.err],
         LAMBDA sto :
    With(hooks_post(h.items, sto.err, env), LAMBDA post :
         Res(post.items, NilList, -1, post.err, sto.store,
             <<EvPre("Insert", items, NilItem, Query("*", -1), pre.err)>>
             \o (IF pre.err = Nil THEN <<EvHash("Insert", pre.items, h.err)>> ELSE <<>>)
             \o (IF h.err = Nil
                 THEN <<EvStorage("Insert", h.items, NilItem, Query("*", -1), -1, sto.err)>>
                 ELSE <<>>)
             \o <<EvPost("Insert", h.items, NilItem, Query("*", -1), -1, sto.err,
                         post.err)>>)))))

\* onUpdateMiddlewareDefault in its three suspension points: the pre-hook, the
\* hashing and the storage call, the post-hook.
updatePre(item, original, env) ==
    LET pre == hooks_pre(<<item>>, env)
    IN  [item |-> pre.items[1], err |-> pre.err,
         trace |-> <<EvPre("Update", <<item>>, original, Query("*", -1), pre.err)>>]

\* The storage call given the new item where the original belongs.
updateStoreSwapped(st, item, original, preErr, env) ==
    With(IF preErr = Nil THEN recalcEtag(<<item>>) ELSE [items |-> <<item>>, err |-> preErr],
         LAMBDA h :
    With(IF h.err = Nil THEN storage_Update(st, h.items[1], h.items[1], env.fault)
         ELSE [store |-> st, err |-> h.err],
         LAMBDA sto :
         [item |-> h.items[1], err |-> sto.err, store |-> sto.store,
          trace |-> (IF preErr = Nil THEN <<EvHash("Update", <<item>>, h.err)>> ELSE <<>>)
                    \o (IF h.err = Nil
                        THEN <<EvStorage("Update", h.items, h.items[1], Query("*", -1), -1, sto.err)>>
                        ELSE <<>>)]))

updateStore(st, item, original, preErr, env) ==
    With(IF preErr = Nil THEN recalcEtag(<<item>>) ELSE [items |-> <<item>>, err |-> preErr],
         LAMBDA h :
    With(IF h.err = Nil THEN storage_Update(st, h.items[1], original, env.fault)
         ELSE [store |-> st, err |-> h.err],
         LAMBDA sto :
         [item |-> h.items[1], err |-> sto.err, store |-> sto.store,
          trace |-> (IF preErr = Nil THEN <<EvHash("Update", <<item>>, h.err)>> ELSE <<>>)
                    \o (IF h.err = Nil
                        THEN <<EvStorage("Update", h.items, original, Query("*", -1), -1, sto.err)>>
                        ELSE <<>>)]))

updatePost(item, original, err, env) ==
    LET post == hooks_post(<<item>>, err, env)
    IN  [item |-> post.items[1], err |-> post.err,
         trace |-> <<EvPost("Update", <<item>>, original, Query("*", -1), -1, err, post.err)>>]

onUpdateMiddlewareDefault(st, item, original, env) ==
    With(updatePre(item, original, env), LAMBDA pre :
    With(updateStore(st, pre.item, original, pre.err, env), LAMBDA sto :
    With(updatePost(sto.item, original, sto.err, env), LAMBDA post :
         Res(<<post.item>>, NilList, -1, post.err, sto.store,
             pre.trace \o sto.trace \o post.trace))))

\* A handler that returns as soon as the pre-hook fails, without the post-hook.
onDeleteMiddlewareDefaultEarlyReturn(st, item, env) ==
    LET pre == hooks_pre(<<item>>, env)
        sto == storage_Delete(st, pre.items[1], env.fault)
        post == hooks_post(pre.items, sto.err, env)
    IN  IF pre.err # Nil
        THEN Res(pre.items, NilList, -1, pre.err, st,
                 <<EvPre("Delete", <<item>>, NilItem, Query("*", -1), pre.err)>>)
        ELSE Res(post.items, NilList, -1, post.err, sto.store,
                 <<EvPre("Delete", <<item>>, NilItem, Query("*", -1), pre.err),
                   EvStorage("Delete", pre.items, NilItem, Query("*", -1), -1, sto.err),
                   EvPost("Delete", pre.items, NilItem, Query("*", -1), -1, sto.err, post.err)>>)

onDeleteMiddlewareDefault(st, item, env) ==
    LET pre == hooks_pre(<<item>>, env)
        sto == IF pre.err = Nil THEN storage_Delete(st, pre.items[1], env.fault)
               ELSE [store |-> st, err |-> pre.err]
        post == hooks_post(pre.items, sto.err, env)
    IN  Res(post.items, NilList, -1, post.err, sto.store,
            <<EvPre("Delete", <<item>>, NilItem, Query("*", -1), pre.err)>>
            \o (IF pre.err = Nil
                THEN <<EvStorage("Delete", pre.items, NilItem, Query("*", -1), -1, sto.err)>>
                ELSE <<>>)
            \o <<EvPost("Delete", pre.items, NilItem, Query("*", -1), -1, sto.err, post.err)>>)

onClearMiddlewareDefault(st, q, env) ==
    LET pre == hooks_pre(<<>>, env)
        sto == IF pre.err = Nil THEN storage_Clear(st, q, env.fault)
               ELSE [store |-> st, n |-> 0, err |-> pre.err]
        post == hooks_post(<<>>, sto.err, env)
    IN  Res(<<>>, NilList, sto.n, post.err, sto.store,
            <<EvPre("Clear", <<>>, NilItem, q, pre.err)>>
            \o (IF pre.err = Nil
                THEN <<EvStorage("Clear", <<>>, NilItem, q, sto.n, sto.err)>>
                ELSE <<>>)
            \o <<EvPost("Clear", <<>>, NilItem, q, sto.n, sto.err, post.err)>>)


\* ----------------------------------------------------------------- MultiGet
\* What the event handlers and the backend do during one MultiGet, by position
\* in ids: pre[i] is the error OnGet returns for ids[i]; post[i] is what OnGot
\* does on its i-th call: the error it writes through its *error (Keep: none)
\* and whether it points its *item to another item; backend is "ok", "short"
\* (the backend hands back one item less than asked) or "fault" (the context
\* is cancelled).
GotHook(err, rewrite) == [err |-> err, rewrite |-> rewrite]
MultiEnv(pre, post, backend) == [pre |-> pre, post |-> post, backend |-> backend]

\* The item an OnGot hook puts in place of the one it received.
Replacement(item, id) == IF item.nil THEN Stored(id, "y") ELSE Edit(item)

\* storage.MultiGet: the items in the order of ids, a nil slot where there is
\* no document.
storage_MultiGet(st, ids, backend) ==
    IF backend = "fault" THEN [items |-> <<>>, err |-> context_Canceled]
    ELSE [items |-> [k \in 1..(IF backend = "short" THEN Len(ids) - 1 ELSE Len(ids)) |->
                       st[ids[k]]],
          err |-> Nil]

\* for i, id := range ids { errs[i] = onGet(ctx, id); ... }   from position i on
RECURSIVE multiGetPre(_, _, _, _, _, _)
multiGetPre(ids, env, i, errs, err, trace) ==
    IF i > Len(ids) THEN [errs |-> errs, err |-> err, trace |-> trace]
    ELSE multiGetPre(ids, env, i + 1, Append(errs, env.pre[i]),
                     IF err = Nil /\ env.pre[i] # Nil THEN env.pre[i] ELSE err,
                     Append(trace, EvPre("MultiGet", <<>>, NilItem, Query(ids[i], -1),
                                         env.pre[i])))

\* The storage request made whatever the pre-hooks returned.
multiGetStoreAlways(st, ids, env, pre) ==
    With(storage_MultiGet(st, ids, env.backend), LAMBDA sto :
         [items |-> sto.items, err |-> sto.err, errs |-> pre.errs,
          trace |-> Append(pre.trace,
                           EvStorage("MultiGet", sto.items, NilItem, Query("*", -1),
                                     Len(ids), sto.err))])

\* if err == nil { items, err = r.storage.MultiGet(ctx, ids) }
multiGetStore(st, ids, env, pre) ==
    IF pre.err # Nil
    THEN [items |-> <<>>, err |-> pre.err, errs |-> pre.errs, trace |-> pre.trace]
    ELSE With(storage_MultiGet(st, ids, env.backend), LAMBDA sto :
         [items |-> sto.items, err |-> sto.err, errs |-> pre.errs,
          trace |-> Append(pre.trace,
                           EvStorage("MultiGet", sto.items, NilItem, Query("*", -1),
                                     Len(ids), sto.err))])

\* The post-hook seeded with the global error whatever the id's own.
seedGlobal(errs, err, i) == err

\* _err := errs[i]; if _err == nil { _err = err }
seedErr(errs, err, i) == IF errs[i] # Nil THEN errs[i] ELSE err

\* var _item *Item; if len(items) > i { _item = items[i] }
slotItem(items, i) == IF Len(items) >= i THEN items[i] ELSE NilItem

\* r.hooks.onGot(ctx, &_item, &_err)
hooks_onGot(hook, item, id, err) ==
    [item |-> IF hook.rewrite THEN Replacement(item, id) ELSE item,
     err |-> IF hook.err = Keep THEN err ELSE hook.err]

\* The change of every hook applied, the last one winning.
overwriteLast(errOverwrite, gotErr, own) ==
    IF gotErr # own THEN gotErr ELSE errOverwrite

\* if errOverwrite == nil && _err != errs[i] { errOverwrite = _err }
overwrite(errOverwrite, gotErr, own) ==
    IF errOverwrite = Nil /\ gotErr # own THEN gotErr ELSE errOverwrite

\* if _err == nil && len(items) > i && _item != items[i] { items[i] = _item }
applyItem(items, i, got, item) ==
    IF got.err = Nil /\ Len(items) >= i /\ got.item # item
    THEN [items EXCEPT ![i] = got.item] ELSE items

\* for i := range ids { ... }   from position i on; got is what the hook of
\* position i left in _item and _err
RECURSIVE multiGetPost(_, _, _, _, _, _, _)
multiGetPosted(ids, env, i, s, items, errOverwrite, trace, seed, got) ==
    multiGetPost(ids, env, i + 1, s,
                 applyItem(items, i, got, slotItem(items, i)),
                 overwrite(errOverwrite, got.err, s.errs[i]),
                 Append(trace, EvPost("MultiGet", <<slotItem(items, i)>>, NilItem,
                                      Query(ids[i], -1), -1, seed, got.err)))

multiGetSeeded(ids, env, i, s, items, errOverwrite, trace, seed) ==
    multiGetPosted(ids, env, i, s, items, errOverwrite, trace, seed,
                   hooks_onGot(env.post[i], slotItem(items, i), ids[i], seed))

multiGetPost(ids, env, i, s, items, errOverwrite, trace) ==
    IF i > Len(ids) THEN [items |-> items, errOverwrite |-> errOverwrite, trace |-> trace]
    ELSE multiGetSeeded(ids, env, i, s, items, errOverwrite, trace, seedErr(s.errs, s.err, i))

\* The items handed back whatever the error.
multiGetResultKeepingItems(st, s, p) ==
    Res(p.items, NilList, -1, IF p.errOverwrite # Nil THEN p.errOverwrite ELSE s.err,
        st, p.trace)

\* The error cleared when the last post-hook left none, as Get does.
multiGetResultClearable(st, s, p) ==
    With(IF p.errOverwrite # Nil THEN p.errOverwrite
         ELSE IF p.trace # <<>> /\ p.trace[Len(p.trace)].ev = "post"
                 /\ p.trace[Len(p.trace)].err = Nil THEN Nil
         ELSE s.err,
         LAMBDA err : Res(IF err # Nil THEN <<>> ELSE p.items, NilList, -1, err, st, p.trace))

\* if errOverwrite != nil { err = errOverwrite }; if err != nil { items = nil }
multiGetResult(st, s, p) ==
    Res(IF p.errOverwrite # Nil \/ s.err # Nil THEN <<>> ELSE p.items, NilList, -1,
        IF p.errOverwrite # Nil THEN p.errOverwrite ELSE s.err,
        st, p.trace)

multiGetStored(st, ids, env, s) ==
    multiGetResult(st, s, multiGetPost(ids, env, 1, s, s.items, Nil, s.trace))

onMultiGetMiddlewareDefault(st, ids, env) ==
    multiGetStored(st, ids, env,
                   multiGetStore(st, ids, env, multiGetPre(ids, env, 1, <<>>, Nil, <<>>)))


\* ------------------------------------------------------------- middlewares
\* The operation kinds with a case in Chain, and all the composed handlers.
ChainKinds == {"Get", "Find", "Reduce", "Insert", "Update", "Delete", "Clear"}
ThenKinds == ChainKinds \cup {"MultiGet"}

\* A handler: the interceptors wrapped around it, outermost first, and the
\* default handler at its core.
defaultHandler(k) == [chain |-> <<>>, base |-> k]
\* m(next)
Wrap(m, next) == [next EXCEPT !.chain = <<m>> \o @]

\* middlewareHandlers after initMiddlewares.
initMiddlewares ==
    [onC |-> [k \in ChainKinds |-> <<>>],
     onThen |-> [k \in ThenKinds |-> defaultHandler(k)]]

\* The loop run from the first registered interceptor to the last.
RECURSIVE wrapAscending(_, _, _)
wrapAscending(c, i, then) ==
    IF i < 1 THEN then
    ELSE wrapAscending(c, i - 1, Wrap(c[Len(c) + 1 - i], then))

\* for i := len(c) - 1; i >= 0; i-- { then = c[i](then) }   (c[i] of Go is c[i + 1] here)
RECURSIVE wrapAll(_, _, _)
wrapAll(c, i, then) ==
    IF i < 1 THEN then
    ELSE wrapAll(c, i - 1, Wrap(c[i], then))

\* One case of Chain's switch that wraps the new interceptor around the handler
\* composed so far instead of composing anew.
registerOnto(mw, k, m) ==
    LET c == Append(mw.onC[k], m)
    IN  [onC |-> [mw.onC EXCEPT ![k] = c],
         onThen |-> [mw.onThen EXCEPT ![k] = wrapAll(c, Len(c), @)]]

\* One case of Chain's switch that composes the kind's handler and sets the
\* handlers of the other kinds back to their default handlers.
registerResetting(mw, k, m) ==
    LET c == Append(mw.onC[k], m)
    IN  [onC |-> [mw.onC EXCEPT ![k] = c],
         onThen |-> [j \in ThenKinds |->
                       IF j = k THEN wrapAll(c, Len(c), defaultHandler(k))
                       ELSE defaultHandler(j)]]

\* One case of Chain's switch: append, start from the default handler, wrap.
register(mw, k, m) ==
    LET c == Append(mw.onC[k], m)
    IN  [onC |-> [mw.onC EXCEPT ![k] = c],
         onThen |-> [mw.onThen EXCEPT ![k] = wrapAll(c, Len(c), defaultHandler(k))]]

\* An argument of Chain: an interceptor of kind t, a []interface{} (t = "list")
\* or a value of another type (t = "bad").
Leaf(t) == [t |-> t, elems |-> <<>>]
List(elems) == [t |-> "list", elems |-> elems]

\* Every interceptor handed to Chain is a function value of its own; it is
\* named by the number of interceptors registered before it.
Registered(mw) ==
    LET RECURSIVE sum(_)
        sum(ks) == IF ks = {} THEN 0
                   ELSE LET k == CHOOSE x \in ks : TRUE
                        IN  Len(mw.onC[k]) + sum(ks \ {k})
    IN  sum(ChainKinds)

\* r is the resource's middlewares and whether Chain has panicked.
RECURSIVE Chain(_, _)
Chain(r, middlewares) ==
    IF middlewares = <<>> \/ r.panic THEN r
    ELSE LET m == Head(middlewares)
             r1 == IF m.t = "list" THEN Chain(r, m.elems)
                   ELSE IF m.t \in ChainKinds
                   THEN [r EXCEPT !.mw = register(r.mw, m.t, Registered(r.mw) + 1)]
                   ELSE [r EXCEPT !.panic = TRUE]
         IN  Chain(r1, Tail(middlewares))

\* An interceptor calls next once and returns what next returned.
EvEnter(m, op) == [Event("enter", op) EXCEPT !.mw = m]
EvExit(m, op) == [Event("exit", op) EXCEPT !.mw = m]
RECURSIVE invoke(_, _, _)
invoke(chain, op, res) ==
    IF chain = <<>> THEN res
    ELSE [invoke(Tail(chain), op, res) EXCEPT
            !.trace = <<EvEnter(Head(chain), op)>> \o @ \o <<EvExit(Head(chain), op)>>]

\* ---------------------------------------------------------------- Resource
\* The pipeline's operations.  caller is the caller's item or items after the
\* call: the handlers work on the caller's items through pointers, so the
\* caller sees what hooks and recalcEtag did to them whatever the error;
\* wroteBack tells whether the operation copied the returned items over them.
Out(res, caller, wroteBack) ==
    [items |-> res.items, list |-> res.list, n |-> res.n, err |-> res.err,
     store |-> res.store, trace |-> res.trace, caller |-> caller, wroteBack |-> wroteBack]

Get(mw, st, id, env) ==
    Out(invoke(mw.onThen["Get"].chain, "Get", onGetMiddlewareDefault(st, id, env)),
        <<>>, FALSE)

\* MultiGet calls onMultiGetThen, which no case of Chain composes.
MultiGet(mw, st, ids, env) ==
    Out(invoke(mw.onThen["MultiGet"].chain, "MultiGet",
               onMultiGetMiddlewareDefault(st, ids, env)),
        <<>>, FALSE)

find(mw, st, q, forceTotal, env) ==
    Out(invoke(mw.onThen["Find"].chain, "Find", onFindMiddlewareDefault(st, q, forceTotal, env)),
        <<>>, FALSE)
Find(mw, st, q, env) == find(mw, st, q, FALSE, env)
FindWithTotal(mw, st, q, env) == find(mw, st, q, TRUE, env)

\* The items an interceptor returns in place of the ones it got from next.
Substitute(items) == EditAll(items)

\* onXThen(...): the default handler's result d handed up through the
\* interceptors.
intercept(chain, op, d, env) ==
    IF env.swap /\ chain # <<>>
    THEN [invoke(chain, op, d) EXCEPT !.items = Substitute(@)]
    ELSE invoke(chain, op, d)

\* The returned items copied over the caller's whatever the error.
writtenAlways(d, res) == Out(res, res.items, TRUE)

\* if err == nil { copy(items, newItems) }: d.items is what the handlers left
\* in the caller's items through the pointers.
written(d, res) == Out(res, IF res.err = Nil THEN res.items ELSE d.items, res.err = Nil)

Insert(mw, st, items, env) ==
    With(onInsertMiddlewareDefault(st, items, env), LAMBDA d :
         written(d, intercept(mw.onThen["Insert"].chain, "Insert", d, env)))

Update(mw, st, item, original, env) ==
    With(onUpdateMiddlewareDefault(st, item, original, env), LAMBDA d :
         written(d, intercept(mw.onThen["Update"].chain, "Update", d, env)))

Delete(mw, st, item, env) ==
    With(onDeleteMiddlewareDefault(st, item, env), LAMBDA d :
         written(d, intercept(mw.onThen["Delete"].chain, "Delete", d, env)))

\* Clear that hands the caller no error once the handlers have run.
ClearDroppingError(mw, st, q, env) ==
    Out([invoke(mw.onThen["Clear"].chain, "Clear", onClearMiddlewareDefault(st, q, env))
            EXCEPT !.err = Nil], <<>>, FALSE)

Clear(mw, st, q, env) ==
    Out(invoke(mw.onThen["Clear"].chain, "Clear", onClearMiddlewareDefault(st, q, env)),
        <<>>, FALSE)


\* Reduce calls no hook.
storage_Reduce(st, q, fault, reducerErr) ==
    IF fault # Nil THEN fault
    ELSE IF Match(st, q) # {} THEN reducerErr
    ELSE Nil

\* A Reduce handler built like the others: pre-hook, storage, post-hook.
onReduceMiddlewareHooked(st, q, env) ==
    With(hooks_pre(<<>>, env), LAMBDA pre :
    With(IF pre.err = Nil THEN storage_Reduce(st, q, env.fault, env.countErr) ELSE pre.err,
         LAMBDA err :
    With(hooks_post(<<>>, err, env), LAMBDA post :
         Res(<<>>, NilList, -1, post.err, st,
             <<EvPre("Reduce", <<>>, NilItem, q, pre.err)>>
             \o (IF pre.err = Nil
                 THEN <<EvStorage("Reduce", <<>>, NilItem, q, -1, err)>> ELSE <<>>)
             \o <<EvPost("Reduce", <<>>, NilItem, q, -1, err, post.err)>>))))

onReduceMiddlewareDefault(st, q, env) ==
    LET err == storage_Reduce(st, q, env.fault, env.countErr)
    IN  Res(<<>>, NilList, -1, err, st,
            <<EvStorage("Reduce", <<>>, NilItem, q, -1, err)>>)

Reduce(mw, st, q, env) ==
    Out(invoke(mw.onThen["Reduce"].chain, "Reduce", onReduceMiddlewareDefault(st, q, env)),
        <<>>, FALSE)

\* =================================================================== state
VARIABLES
    middlewares,   \* the resource's middlewareHandlers
    store,         \* the documents the storage backend holds
    call,          \* the pipeline call in progress, with what it returned
    proc,          \* the concurrent writers of SpecRace
    put,           \* the PUT request of SpecPut, with its response
    root,          \* the resource graph Bind, Alias and Command build
    validator      \* the schema validator being compiled or applied

vars == <<middlewares, store, call, proc, put, root, validator>>

Idle ==
    [op |-> "idle", id |-> "", q |-> Query("*", -1), forceTotal |-> FALSE, in |-> <<>>,
     orig |-> NilItem, env |-> NoHooks, args |-> <<>>, panic |-> FALSE, before |-> <<>>,
     items |-> <<>>, list |-> NilList, n |-> -1, err |-> Nil, trace |-> <<>>,
     caller |-> <<>>, wroteBack |-> FALSE]

\* The call record of an operation that returned o.
Called(op, id, q, forceTotal, in, orig, env, o) ==
    [Idle EXCEPT !.op = op, !.id = id, !.q = q, !.forceTotal = forceTotal, !.in = in,
                 !.orig = orig, !.env = env, !.before = store,
                 !.items = o.items, !.list = o.list, !.n = o.n, !.err = o.err,
                 !.trace = o.trace, !.caller = o.caller, !.wroteBack = o.wroteBack]

NoProc == <<>>
NoPut == <<>>
NoRoot == <<>>
NoValidator == <<>>

\* ------------------------------------------------------------------ inputs
GetEnvs == {e \in Envs : ~e.preEdit}
PlainEnvs == {e \in Envs : ~e.preEdit /\ ~e.postEdit}
FindInputEnvs == {e \in FindEnvs : (~e.postEdit) /\ (e.withTotal => e.countErr = Nil)}
\* Reduce: the event handlers attached, the context, the reducer's error.
ReduceEnvs == {Env(a, FALSE, c, FALSE, f, TRUE, r) :
                  a \in {Nil, resource_ErrForbidden}, c \in {Keep, Nil, errHook},
                  f \in {Nil, context_Canceled}, r \in {Nil, errHook}}
Queries == {Query(p, l) : p \in {"i1", "*"}, l \in {-1, 1}}
\* The items a caller hands to Insert.
NewItems == {Item("i1", NoEtag, 0, Doc("i1", "x")),
             Item("i1", NoEtag, 0, Doc("i1", Unmarshalable)),
             Item("i2", NoEtag, 0, Doc("i2", "y")),
             NilItem}
RECURSIVE SeqsOf(_, _)
SeqsOf(S, n) == IF n = 0 THEN {<<>>} ELSE {Append(l, a) : l \in SeqsOf(S, n - 1), a \in S}
SeqsUpTo(S, n) == UNION {SeqsOf(S, k) : k \in 1..n}
\* The snapshots a caller may hold of a document: current or stale.
Originals == {Stored(i, a) : i \in Ids, a \in Vals}
\* The new version of original: a payload, and the ETag the caller left in it.
NewVersions(original) ==
    {Item(original.ID, e, 0, Doc(original.ID, a)) :
        a \in Vals \cup {Unmarshalable}, e \in {NoEtag, original.ETag}}

\* ----------------------------------------------------------------- actions
DoGet(E) ==
    /\ call.op = "idle"
    /\ \E id \in Ids, env \in E :
          \E o \in {Get(middlewares, store, id, env)} :
              /\ call' = Called("Get", id, Query(id, -1), FALSE, <<>>, NilItem, env, o)
              /\ store' = o.store
              /\ UNCHANGED <<middlewares, proc, put, root, validator>>

DoFind(E) ==
    /\ call.op = "idle"
    /\ \E q \in Queries, forceTotal \in BOOLEAN, env \in E :
          \E o \in {find(middlewares, store, q, forceTotal, env)} :
              /\ call' = Called("Find", "", q, forceTotal, <<>>, NilItem, env, o)
              /\ store' = o.store
              /\ UNCHANGED <<middlewares, proc, put, root, validator>>

DoReduce(E) ==
    /\ call.op = "idle"
    /\ \E q \in Queries, env \in E :
          \E o \in {Reduce(middlewares, store, q, env)} :
              /\ call' = Called("Reduce", "", q, FALSE, <<>>, NilItem, env, o)
              /\ store' = o.store
              /\ UNCHANGED <<middlewares, proc, put, root, validator>>

DoInsert(E) ==
    /\ call.op = "idle"
    /\ \E items \in SeqsUpTo(NewItems, MaxItems), e \in E, swap \in BOOLEAN :
          \E env \in {[e EXCEPT !.swap = swap]} :
          \E o \in {Insert(middlewares, store, items, env)} :
              /\ call' = Called("Insert", "", Query("*", -1), FALSE, items, NilItem, env, o)
              /\ store' = o.store
              /\ UNCHANGED <<middlewares, proc, put, root, validator>>

DoUpdate(E) ==
    /\ call.op = "idle"
    /\ \E original \in Originals, e \in E, swap \in BOOLEAN :
          \E item \in NewVersions(original), env \in {[e EXCEPT !.swap = swap]} :
             \E o \in {Update(middlewares, store, item, original, env)} :
                 /\ call' = Called("Update", "", Query("*", -1), FALSE, <<item>>, original, env, o)
                 /\ store' = o.store
                 /\ UNCHANGED <<middlewares, proc, put, root, validator>>

DoDelete(E) ==
    /\ call.op = "idle"
    /\ \E item \in Originals, e \in E, swap \in BOOLEAN :
          \E env \in {[e EXCEPT !.swap = swap]} :
          \E o \in {Delete(middlewares, store, item, env)} :
              /\ call' = Called("Delete", "", Query("*", -1), FALSE, <<item>>, NilItem, env, o)
              /\ store' = o.store
              /\ UNCHANGED <<middlewares, proc, put, root, validator>>

DoClear(E) ==
    /\ call.op = "idle"
    /\ \E q \in {Query("*", -1), Query("i1", -1)}, env \in E :
          \E o \in {Clear(middlewares, store, q, env)} :
              /\ call' = Called("Clear", "", q, FALSE, <<>>, NilItem, env, o)
              /\ store' = o.store
              /\ UNCHANGED <<middlewares, proc, put, root, validator>>

\* The caller takes the results.
Return ==
    /\ call.op # "idle"
    /\ call' = Idle
    /\ UNCHANGED <<middlewares, store, proc, put, root, validator>>

\* ------------------------------------------------- Spec: the serving phase
\* The resource graph is built before traffic is served and read-only from
\* then on: the resource has no interceptor, or two of every kind.
EveryKind == <<Leaf("Get"), Leaf("Find"), Leaf("Reduce"), Leaf("Insert"),
               Leaf("Update"), Leaf("Delete"), Leaf("Clear")>>
ServingMiddlewares ==
    {initMiddlewares,
     Chain([mw |-> initMiddlewares, panic |-> FALSE], <<List(EveryKind), List(EveryKind)>>).mw}

Init ==
    /\ middlewares \in ServingMiddlewares
    /\ store \in Stores
    /\ call = Idle
    /\ proc = NoProc
    /\ put = NoPut
    /\ root = NoRoot
    /\ validator = NoValidator

Next ==
    \/ DoGet(GetEnvs)
    \/ DoFind(FindInputEnvs)
    \/ DoReduce(ReduceEnvs)
    \/ DoInsert(Envs)
    \/ DoUpdate(Envs)
    \/ DoDelete(PlainEnvs)
    \/ DoClear(PlainEnvs)
    \/ Return

Spec == Init /\ [][Next]_vars

\* --------------------------------------------- SpecChain: the build phase
\* Chain calls, and calls of the composed handlers between them.
Leaves == {Leaf(t) : t \in ChainKinds \cup {"MultiGet", "bad"}}
ChainArgs ==
    {<<a>> : a \in Leaves}
    \cup {<<a, b>> : a \in Leaves, b \in Leaves}
    \cup {<<List(<<>>)>>}
    \cup {<<List(<<a>>)>> : a \in Leaves}
    \cup {<<List(<<a, b>>)>> : a \in Leaves, b \in Leaves}
    \cup {<<a, List(<<b>>)>> : a \in Leaves, b \in Leaves}
    \cup {<<List(<<a>>), b>> : a \in Leaves, b \in Leaves}
    \cup {<<List(<<List(<<a>>)>>), b>> : a \in Leaves, b \in Leaves}

RECURSIVE CountLeaves(_)
CountLeaves(args) ==
    IF args = <<>> THEN 0
    ELSE (IF Head(args).t = "list" THEN CountLeaves(Head(args).elems) ELSE 1)
         + CountLeaves(Tail(args))

DoChain ==
    \E args \in ChainArgs :
       LET r == Chain([mw |-> middlewares, panic |-> FALSE], args)
       IN  /\ call.op = "idle"
           /\ Registered(middlewares) + CountLeaves(args) <= MaxRegs
           /\ middlewares' = r.mw
           /\ call' = [Idle EXCEPT !.op = "Chain", !.args = args, !.panic = r.panic,
                                   !.before = middlewares]
           /\ UNCHANGED <<store, proc, put, root, validator>>

InitChain ==
    /\ middlewares = initMiddlewares
    /\ store = [i \in Ids |-> IF i = "i1" THEN Stored(i, "x") ELSE NilItem]
    /\ call = Idle
    /\ proc = NoProc
    /\ put = NoPut
    /\ root = NoRoot
    /\ validator = NoValidator

NextChain ==
    \/ DoChain
    \/ DoGet({NoHooks})
    \/ DoFind({NoHooks})
    \/ DoReduce({NoHooks})
    \/ DoInsert({NoHooks})
    \/ DoUpdate({NoHooks})
    \/ DoDelete({NoHooks})
    \/ DoClear({NoHooks})
    \/ Return

SpecChain == InitChain /\ [][NextChain]_vars


\* ------------------------------------------------ SpecMulti: MultiGet calls
\* MultiGet on a resource that holds "i1" and not "i2", with no interceptor
\* or two of every kind Chain composes, for every list of up to MaxIds ids
\* and every behaviour of the hooks and the backend on each of them.
MultiStore0 == [i \in Ids |-> IF i = "i1" THEN Stored(i, "x") ELSE NilItem]
MultiIds == {<<>>} \cup SeqsUpTo(Ids, MaxIds)
PreErrs == {Nil, resource_ErrForbidden, errHook}
GotHooks == {GotHook(e, w) : e \in {Keep, Nil, errHook}, w \in BOOLEAN}
MultiEnvs(n) ==
    {MultiEnv(pre, post, b) :
        pre \in [1..n -> PreErrs], post \in [1..n -> GotHooks], b \in {"ok", "short", "fault"}}

DoMultiGet ==
    /\ call.op = "idle"
    /\ \E ids \in MultiIds :
          \E env \in MultiEnvs(Len(ids)) :
             \E o \in {MultiGet(middlewares, store, ids, env)} :
                 /\ call' = [Called("MultiGet", "", Query("*", -1), FALSE, <<>>, NilItem, env, o)
                                EXCEPT !.args = ids]
                 /\ store' = o.store
                 /\ UNCHANGED <<middlewares, proc, put, root, validator>>

InitMulti ==
    /\ middlewares \in ServingMiddlewares
    /\ store = MultiStore0
    /\ call = Idle
    /\ proc = NoProc
    /\ put = NoPut
    /\ root = NoRoot
    /\ validator = NoValidator

NextMulti == DoMultiGet \/ Return

SpecMulti == InitMulti /\ [][NextMulti]_vars


\* ================================================================== claims
\* The calls the default handler made: the trace without the interceptors.
DefTrace(t) == SelectSeq(t, LAMBDA e : e.ev \notin {"enter", "exit"})
StorageCalls(d) == {i \in 1..Len(d) : d[i].ev = "storage"}
HashCalls(d) == {i \in 1..Len(d) : d[i].ev = "hash"}
HookedOps == {"Get", "Find", "Insert", "Update", "Delete", "Clear"}

\* C1: for Get, Find, Insert, Update, Delete and Clear the default handler
\* calls the pre-hook first and the post-hook last, each exactly once, with the
\* hashing and the storage call (if any) between them; no storage call is made
\* when the pre-hook returned an error, one is made when the pre-hook and the
\* hashing succeeded; the post-hook receives the error of the call before it
\* and the items and count the storage call produced.
C1_PreStoragePost ==
    call.op \in HookedOps =>
        LET d == DefTrace(call.trace)
            n == Len(d)
            sto == StorageCalls(d)
        IN  /\ n >= 2
            /\ d[1].ev = "pre"
            /\ d[n].ev = "post"
            /\ \A i \in 2..(n - 1) : d[i].ev \in {"hash", "storage"}
            /\ (d[1].err # Nil) => (sto = {})
            /\ (d[1].err = Nil /\ \A i \in HashCalls(d) : d[i].err = Nil) => (sto # {})
            /\ d[n].inErr = d[n - 1].err
            /\ (sto # {}) =>
                  /\ d[n].items = d[CHOOSE i \in sto : \A j \in sto : i <= j].items
                  /\ d[n].n = d[n - 1].n

\* C1's case: the pre-hook failed, storage was skipped, the post-hook ran.
C1_Witness ==
    /\ call.op = "Insert"
    /\ Len(middlewares.onC["Insert"]) = 2
    /\ LET d == DefTrace(call.trace)
       IN  /\ Len(d) = 2
           /\ d[1].ev = "pre" /\ d[1].err = resource_ErrForbidden
           /\ d[2].ev = "post" /\ d[2].inErr = resource_ErrForbidden

\* C2: a call of an operation enters the interceptors registered for its kind
\* in registration order, then runs the default handler, then leaves the
\* interceptors in the reverse order.
C2_FirstRegisteredOutermost ==
    call.op \in ChainKinds =>
        LET c == middlewares.onC[call.op]
            t == call.trace
            n == Len(c)
        IN  /\ Len(t) > 2 * n
            /\ \A i, j \in 1..n : (i < j) => (c[i] < c[j])
            /\ \A i \in 1..n :
                  /\ t[i].ev = "enter" /\ t[i].mw = c[i]
                  /\ t[Len(t) + 1 - i].ev = "exit" /\ t[Len(t) + 1 - i].mw = c[i]
            /\ \A i \in (n + 1)..(Len(t) - n) : t[i].ev \notin {"enter", "exit"}

\* C2's case: a call through two interceptors.
C2_Witness ==
    /\ call.op = "Update"
    /\ Len(middlewares.onC["Update"]) = 2
    /\ Len(call.trace) >= 5
    /\ call.trace[1].mw = middlewares.onC["Update"][1]
    /\ call.trace[2].mw = middlewares.onC["Update"][2]

\* C3: after any sequence of Chain calls the composed handler of every kind is
\* the kind's registration list wrapped in order around its default handler,
\* every registered interceptor is in exactly one place of one list, and the
\* MultiGet handler is its default handler.
C3_ChainRebuilds ==
    /\ \A k \in ChainKinds :
          /\ middlewares.onThen[k] = [chain |-> middlewares.onC[k], base |-> k]
          /\ \A i, j \in 1..Len(middlewares.onC[k]) :
                (i # j) => (middlewares.onC[k][i] # middlewares.onC[k][j])
    /\ UNION {{middlewares.onC[k][i] : i \in 1..Len(middlewares.onC[k])} : k \in ChainKinds}
          = 1..Registered(middlewares)
    /\ middlewares.onThen["MultiGet"] = defaultHandler("MultiGet")

\* C3's case: a Chain call with a nested list that adds a second interceptor to
\* a kind.
C3_Witness ==
    /\ call.op = "Chain"
    /\ \E i \in 1..Len(call.args) : call.args[i].t = "list" /\ call.args[i].elems # <<>>
    /\ \E k \in ChainKinds :
          /\ Len(call.before.onC[k]) = 1
          /\ Len(middlewares.onC[k]) = 2


\* An Update whose original carries another content hash than the stored
\* document of that id.
StaleUpdate ==
    /\ call.op = "Update"
    /\ ~call.before[call.orig.ID].nil
    /\ call.before[call.orig.ID].ETag # call.orig.ETag

\* C5 as stated: an Update with a stale original returns Conflict, leaves the
\* stored document as it was and does not write a result back to the caller.
C5_AsStated ==
    StaleUpdate =>
        /\ call.err = resource_ErrConflict
        /\ store = call.before
        /\ ~call.wroteBack

\* C5, amended: an Update with a stale original leaves the stored documents as
\* they were; the default handler never hands success to the post-hook; a
\* storage call that is reached returns Conflict, or the context's error when
\* the context is cancelled; and unless the post-hook overwrites the error the
\* operation returns it (Conflict when storage was reached under a live
\* context) and nothing is written back to the caller's item.
C5_StaleUpdateRejected ==
    StaleUpdate =>
        LET d == DefTrace(call.trace)
            n == Len(d)
        IN  /\ store = call.before
            /\ d[n].ev = "post" /\ d[n].inErr # Nil
            /\ \A i \in StorageCalls(d) :
                  /\ d[i].orig = call.orig
                  /\ d[i].err = (IF call.env.fault = Nil THEN resource_ErrConflict
                                 ELSE call.env.fault)
            /\ (call.env.postErr = Keep) =>
                  /\ call.err = d[n].inErr
                  /\ ~call.wroteBack
                  /\ (StorageCalls(d) # {} /\ call.env.fault = Nil)
                        => (call.err = resource_ErrConflict)
            /\ call.wroteBack => (call.err = Nil)

\* C5's case: storage was reached with the stale original and the operation
\* returned Conflict.
C5_Witness ==
    /\ StaleUpdate
    /\ call.err = resource_ErrConflict
    /\ call.env.postErr = Keep
    /\ \E i \in StorageCalls(DefTrace(call.trace)) :
          DefTrace(call.trace)[i].err = resource_ErrConflict
    /\ store = call.before

\* C8: after an Insert or Update that the storage committed and that returned
\* no error, the ETag of every item the caller holds is the GenEtag of the
\* item's payload as the caller holds it.
C8_EtagOfCurrentPayload ==
    LET d == DefTrace(call.trace)
    IN  (/\ call.op \in {"Insert", "Update"}
         /\ call.err = Nil
         /\ \E i \in StorageCalls(d) : d[i].err = Nil) =>
            \A i \in 1..Len(call.caller) :
                \/ call.caller[i].nil
                \/ call.caller[i].ETag = GenEtag(call.caller[i].Payload).etag

\* The hashing of Insert and Update, as C9 states it but for the last clause.
HashBeforeStorage ==
    LET d == DefTrace(call.trace)
    IN  /\ \A i \in StorageCalls(d) :
              /\ i = 3 /\ d[1].ev = "pre" /\ d[2].ev = "hash" /\ d[2].err = Nil
              /\ Len(d[i].items) = Len(call.in)
              /\ \A k \in 1..Len(d[i].items) :
                    \/ d[i].items[k].nil /\ call.in[k].nil
                    \/ /\ ~d[i].items[k].nil
                       /\ d[i].items[k].ETag = GenEtag(d[i].items[k].Payload).etag
                       /\ d[i].items[k].Payload =
                             (IF call.env.preEdit THEN Edit(call.in[k]) ELSE call.in[k]).Payload
        /\ \A i \in HashCalls(d) : (d[i].err # Nil) => (StorageCalls(d) = {})
        /\ (d[1].err = Nil) => (HashCalls(d) = {2})

\* C9 as stated: Insert and Update hash every item after the pre-hook and
\* before the storage call, storage receives the items with the hash of the
\* payload being stored (pre-hook edits included), and when the hashing fails
\* no storage call is made and the hashing error is the operation's error.
C9_AsStated ==
    call.op \in {"Insert", "Update"} =>
        /\ HashBeforeStorage
        /\ \A i \in HashCalls(DefTrace(call.trace)) :
              (DefTrace(call.trace)[i].err # Nil) => (call.err = DefTrace(call.trace)[i].err)

\* C9, amended: as stated, but when the hashing fails the hashing error is the
\* error handed to the post-hook, and the operation's error unless the
\* post-hook overwrites it.
C9_HashBeforeStorage ==
    call.op \in {"Insert", "Update"} =>
        LET d == DefTrace(call.trace)
        IN  /\ HashBeforeStorage
            /\ \A i \in HashCalls(d) :
                  (d[i].err # Nil) =>
                      /\ d[i].err = json_UnsupportedTypeError
                      /\ d[Len(d)].ev = "post" /\ d[Len(d)].inErr = d[i].err
                      /\ (call.env.postErr = Keep) => (call.err = d[i].err)

\* C9's cases: the second item of an Insert cannot be hashed after the
\* pre-hook ran, so storage is not called, and an Update stored with the hash
\* of the payload the pre-hook edited.
C9_Witness ==
    LET d == DefTrace(call.trace)
    IN  \/ /\ call.op = "Insert" /\ Len(call.in) = 2
           /\ Len(d) = 3 /\ d[2].ev = "hash" /\ d[2].err = json_UnsupportedTypeError
           /\ call.err = json_UnsupportedTypeError
           /\ store = call.before
        \/ /\ call.op = "Update" /\ call.env.preEdit /\ call.err = Nil
           /\ Len(d) = 4 /\ d[3].ev = "storage" /\ d[3].err = Nil
           /\ store[call.orig.ID].Payload = Edit(call.in[1]).Payload
           /\ store[call.orig.ID].ETag = GenEtag(Edit(call.in[1]).Payload).etag


\* ------------------------------------------ SpecRace: two concurrent Updates
\* Two operations update document "i1", each with the snapshot it fetched
\* before either stored and a new version made from it.  An operation is
\* suspended at its hooks and at its storage call; the steps of the two
\* interleave freely.  The backend compares and stores in one step.
Procs == {"p1", "p2"}
RaceId == "i1"
RaceStore0 == [i \in Ids |-> IF i = RaceId THEN Stored(i, "x") ELSE NilItem]
NoStorageCall == Err("none", 0, "")

StartProc(item, original) ==
    [pc |-> "pre", item |-> item, original |-> original, env |-> NoHooks,
     preErr |-> Nil, stoErr |-> NoStorageCall, at |-> 0, seen |-> NoEtag,
     stored |-> NilItem, inErr |-> Nil, err |-> Nil, wroteBack |-> FALSE]

InitRace ==
    /\ middlewares = initMiddlewares
    /\ store = RaceStore0
    /\ call = Idle
    /\ put = NoPut
    /\ root = NoRoot
    /\ validator = NoValidator
    /\ proc \in [Procs -> {StartProc(item, RaceStore0[RaceId]) :
                              item \in {Item(RaceId, RaceStore0[RaceId].ETag, 0, Doc(RaceId, a)) :
                                           a \in Vals \cup {Unmarshalable}}}]

\* r.hooks.onUpdate
RacePre(p) ==
    \E preErr \in {Nil, resource_ErrForbidden}, preEdit \in BOOLEAN :
       LET env == [proc[p].env EXCEPT !.preErr = preErr, !.preEdit = preEdit]
           r == updatePre(proc[p].item, proc[p].original, env)
       IN  /\ proc[p].pc = "pre"
           /\ proc' = [proc EXCEPT ![p].pc = "store", ![p].env = env,
                                   ![p].item = r.item, ![p].preErr = r.err]
           /\ UNCHANGED <<middlewares, store, call, put, root, validator>>

\* recalcEtag and r.storage.Update, skipped after a pre-hook error
RaceStore(p) ==
    \E fault \in {Nil, context_Canceled} :
       LET env == [proc[p].env EXCEPT !.fault = fault]
           r == updateStore(store, proc[p].item, proc[p].original, proc[p].preErr, env)
           reached == StorageCalls(r.trace) # {}
           calls == Cardinality({q \in Procs : proc[q].at > 0})
       IN  /\ proc[p].pc = "store"
           /\ (proc[p].preErr # Nil) => (fault = Nil)
           /\ store' = r.store
           /\ proc' = [proc EXCEPT ![p].pc = "post", ![p].env = env, ![p].item = r.item,
                                   ![p].inErr = r.err,
                                   ![p].stoErr = IF reached THEN r.err ELSE NoStorageCall,
                                   ![p].at = IF reached THEN calls + 1 ELSE 0,
                                   ![p].seen = IF reached THEN store[RaceId].ETag ELSE NoEtag,
                                   ![p].stored = IF reached THEN r.item ELSE NilItem]
           /\ UNCHANGED <<middlewares, call, put, root, validator>>

\* r.hooks.onUpdated, and the write-back of Resource.Update
RacePost(p) ==
    \E postErr \in {Keep, Nil, errHook} :
       LET env == [proc[p].env EXCEPT !.postErr = postErr]
           r == updatePost(proc[p].item, proc[p].original, proc[p].inErr, env)
       IN  /\ proc[p].pc = "post"
           /\ proc' = [proc EXCEPT ![p].pc = "done", ![p].env = env, ![p].item = r.item,
                                   ![p].err = r.err, ![p].wroteBack = (r.err = Nil)]
           /\ UNCHANGED <<middlewares, store, call, put, root, validator>>

NextRace == \E p \in Procs : RacePre(p) \/ RaceStore(p) \/ RacePost(p)

SpecRace == InitRace /\ [][NextRace]_vars

AllDone == \A p \in Procs : proc[p].pc = "done"
Committed == {p \in Procs : proc[p].stoErr = Nil}
\* No hook returns or overwrites an error and the context stays alive.
QuietHooks ==
    \A p \in Procs : /\ proc[p].env.preErr = Nil
                     /\ proc[p].env.postErr = Keep
                     /\ proc[p].env.fault = Nil

\* C4 as stated, in the case most favourable to it (no hook returns or
\* overwrites an error, no context is cancelled, every payload can be hashed):
\* of two concurrent Updates of one item from snapshots taken before either
\* stored, at most one succeeds and at least one returns Conflict.
C4_AsStated ==
    (AllDone /\ QuietHooks /\ \A p \in Procs : proc[p].inErr # json_UnsupportedTypeError) =>
        /\ Cardinality({p \in Procs : proc[p].err = Nil}) <= 1
        /\ Cardinality({p \in Procs : proc[p].err = resource_ErrConflict}) >= 1

\* C4, amended: a storage call commits only against the content hash of its
\* snapshot and returns Conflict exactly when the stored hash differs from it
\* (the context's error when cancelled); so both Updates commit only if the
\* first commit left the content hash as the snapshots have it, that is, if
\* its new payload hashes like the original; otherwise at most one commits,
\* the stored document is the committed one, and the other's storage call
\* returns Conflict.  An operation returns the error of its pre-hook, hashing
\* or storage call unless its post-hook overwrites it.
C4_LostUpdateDetected ==
    /\ \A p \in Procs :
          /\ (proc[p].stoErr = Nil) =>
                /\ proc[p].seen = proc[p].original.ETag
                /\ proc[p].stored.ETag = GenEtag(proc[p].stored.Payload).etag
          /\ (proc[p].at > 0 /\ proc[p].env.fault = Nil) =>
                (proc[p].stoErr = (IF proc[p].seen = proc[p].original.ETag
                                   THEN Nil ELSE resource_ErrConflict))
          /\ (proc[p].at > 0 /\ proc[p].env.fault # Nil) => (proc[p].stoErr = proc[p].env.fault)
          /\ (proc[p].pc = "done" /\ proc[p].env.postErr = Keep) =>
                /\ proc[p].err = proc[p].inErr
                /\ (proc[p].at > 0) => (proc[p].err = proc[p].stoErr)
          /\ proc[p].wroteBack => (proc[p].err = Nil)
    /\ \A p, q \in Procs :
          (p # q /\ proc[p].stoErr = Nil /\ proc[q].stoErr = Nil /\ proc[p].at < proc[q].at) =>
              GenEtag(proc[p].stored.Payload).etag = proc[p].original.ETag
    /\ \A p, q \in Procs :
          (/\ p # q /\ proc[p].stoErr = Nil /\ proc[q].at > proc[p].at
           /\ GenEtag(proc[p].stored.Payload).etag # proc[p].original.ETag) =>
              /\ proc[q].stoErr \in {resource_ErrConflict, context_Canceled}
              /\ store[RaceId] = proc[p].stored
    /\ (Committed = {}) => (store = RaceStore0)

\* C4's case: both Updates reached storage under a live context, the first
\* committed a changed payload and the second returned Conflict to its caller.
C4_Witness ==
    /\ AllDone
    /\ \E p, q \in Procs :
          /\ proc[p].at = 1 /\ proc[q].at = 2
          /\ proc[p].err = Nil /\ proc[p].stoErr = Nil
          /\ proc[p].stored.Payload # proc[p].original.Payload
          /\ proc[q].env.fault = Nil
          /\ proc[q].err = resource_ErrConflict
          /\ store[RaceId] = proc[p].stored


\* ----------------------------------------------------------- rest: errors
rest_Error(code, msg) == Err("rest", code, msg)
rest_ErrNotFound == rest_Error(404, "Not Found")
rest_ErrForbidden == rest_Error(403, "Forbidden")
rest_ErrPreconditionFailed == rest_Error(412, "Precondition Failed")
rest_ErrConflict == rest_Error(409, "Conflict")
rest_ErrInvalidMethod == rest_Error(405, "Invalid Method")
rest_ErrClientClosedRequest == rest_Error(499, "Client Closed Request")
rest_ErrNotImplemented == rest_Error(501, "Not Implemented")
rest_ErrGatewayTimeout == rest_Error(504, "Deadline Exceeded")
rest_ErrUnknown == rest_Error(520, "Unknown Error")

\* fmt.Errorf("wrap: %w", e): an error that wraps e.
fmt_Errorf(e) == [t |-> "wrap", code |-> 0, msg |-> "wrap: " \o e.msg, inner |-> e]
errors_Unwrap(err) == IF err.t = "wrap" THEN err.inner ELSE Nil

\* errors.As(err, &Err): the first *Error in err's chain, if any.
RECURSIVE errors_As(_)
errors_As(err) ==
    IF err = Nil THEN [ok |-> FALSE, Err |-> Nil]
    ELSE IF err.t = "rest" THEN [ok |-> TRUE, Err |-> err]
    ELSE errors_As(errors_Unwrap(err))

\* NewError that looks at the type of err alone, not at what it wraps.
NewErrorByType(err) ==
    IF err.t = "rest" THEN [err |-> err, code |-> err.code]
    ELSE IF err = context_Canceled
    THEN [err |-> rest_ErrClientClosedRequest, code |-> rest_ErrClientClosedRequest.code]
    ELSE IF err = context_DeadlineExceeded
    THEN [err |-> rest_ErrGatewayTimeout, code |-> rest_ErrGatewayTimeout.code]
    ELSE IF err = resource_ErrNotFound
    THEN [err |-> rest_ErrNotFound, code |-> rest_ErrNotFound.code]
    ELSE IF err = resource_ErrForbidden
    THEN [err |-> rest_ErrForbidden, code |-> rest_ErrForbidden.code]
    ELSE IF err = resource_ErrConflict
    THEN [err |-> rest_ErrConflict, code |-> rest_ErrConflict.code]
    ELSE IF err = resource_ErrNotImplemented
    THEN [err |-> rest_ErrNotImplemented, code |-> rest_ErrNotImplemented.code]
    ELSE IF err = resource_ErrNoStorage
    THEN [err |-> rest_Error(501, err.msg), code |-> 501]
    ELSE IF err = Nil
    THEN [err |-> Nil, code |-> 0]
    ELSE [err |-> rest_Error(520, err.msg), code |-> 520]

NewError(err) ==
    IF errors_As(err).ok THEN [err |-> err, code |-> errors_As(err).Err.code]
    ELSE IF err = context_Canceled
    THEN [err |-> rest_ErrClientClosedRequest, code |-> rest_ErrClientClosedRequest.code]
    ELSE IF err = context_DeadlineExceeded
    THEN [err |-> rest_ErrGatewayTimeout, code |-> rest_ErrGatewayTimeout.code]
    ELSE IF err = resource_ErrNotFound
    THEN [err |-> rest_ErrNotFound, code |-> rest_ErrNotFound.code]
    ELSE IF err = resource_ErrForbidden
    THEN [err |-> rest_ErrForbidden, code |-> rest_ErrForbidden.code]
    ELSE IF err = resource_ErrConflict
    THEN [err |-> rest_ErrConflict, code |-> rest_ErrConflict.code]
    ELSE IF err = resource_ErrNotImplemented
    THEN [err |-> rest_ErrNotImplemented, code |-> rest_ErrNotImplemented.code]
    ELSE IF err = resource_ErrNoStorage
    THEN [err |-> rest_Error(501, err.msg), code |-> 501]
    ELSE IF err = Nil
    THEN [err |-> Nil, code |-> 0]
    ELSE [err |-> rest_Error(520, err.msg), code |-> 520]

\* ------------------------------------------- rest: what PUT calls (assumed)
\* The request: the id in the path, the decoded body, the If-Match and
\* If-Unmodified-Since headers (NoEtag, NoTime: header not sent), the
\* Prefer: return=minimal header, the fields of the projection (none: every
\* field) and the command of the route.  bad: what of the request cannot be
\* decoded ("" when all can).
NoTime == -1
Now == MaxTime
NoCommand == [defined |-> FALSE, err |-> Nil, does |-> "nothing"]
Command(err, does) == [defined |-> TRUE, err |-> err, does |-> does]
Request(bad, id, payload, ifMatch, ifUnmod, noContent, projection, command) ==
    [bad |-> bad, id |-> id, payload |-> payload, ifMatch |-> ifMatch, ifUnmod |-> ifUnmod,
     noContent |-> noContent, projection |-> projection, command |-> command]

Conf(modes) == [AllowedModes |-> modes]
IsModeAllowed(conf, mode) == mode \in conf.AllowedModes

\* If-Match / If-Unmodified-Since against the original.
checkIntegrityRequest(r, original) ==
    IF r.ifMatch = NoEtag /\ r.ifUnmod = NoTime THEN Nil
    ELSE IF original.nil THEN rest_ErrNotFound
    ELSE IF r.ifMatch # NoEtag /\ r.ifMatch # original.ETag THEN rest_ErrPreconditionFailed
    ELSE IF r.ifUnmod # NoTime /\ original.Updated > r.ifUnmod THEN rest_ErrPreconditionFailed
    ELSE Nil

\* Validator().Prepare: the fields the caller writes, and the original under
\* them.  A field the payload leaves as the original has it is no change; on
\* replace a field the payload lacks is to be cleared.
Prepare(payload, original, replace) ==
    [changes |-> [f \in Fields |->
                    IF payload[f] # Absent
                    THEN (IF ~original.nil /\ original.Payload[f] = payload[f]
                          THEN Absent ELSE payload[f])
                    ELSE IF replace /\ ~original.nil /\ original.Payload[f] # Absent
                    THEN Tombstone
                    ELSE Absent],
     base |-> IF original.nil THEN EmptyPayload ELSE original.Payload]

\* len(changes)
NumChanges(changes) == Cardinality({f \in Fields : changes[f] # Absent})

\* The loop over route.ResourcePath.Values(): the id of the path.
setLookupFields(p, id, dropTombstone) ==
    [changes |-> [f \in Fields |->
                    IF f = "id" /\ dropTombstone /\ p.changes[f] = Tombstone
                    THEN Absent ELSE p.changes[f]],
     base |-> [p.base EXCEPT !["id"] = id]]

\* Validator().Validate: the validator of every written field runs (rejects:
\* the fields whose validator refuses what is written); the document is the
\* changes over the base, cleared fields removed.
Validate(changes, base, rejects) ==
    [doc |-> [f \in Fields |->
                IF changes[f] = Tombstone THEN Absent
                ELSE IF changes[f] # Absent THEN changes[f]
                ELSE base[f]],
     errs |-> {f \in rejects : changes[f] \notin {Absent, Tombstone}}]

NewItem(doc) ==
    IF doc["id"] = Absent
    THEN [item |-> NilItem, err |-> Err("other", 0, "Missing ID field")]
    ELSE LET e == GenEtag(doc)
         IN  IF e.err # Nil THEN [item |-> NilItem, err |-> e.err]
             ELSE [item |-> Item(doc["id"], e.etag, Now, doc), err |-> Nil]

\* q.Projection.Eval: the payload restricted to the selected fields.
Projection_Eval(projection, payload) ==
    [f \in Fields |-> IF projection = {} \/ f \in projection THEN payload[f] ELSE Absent]

isNoContent(r) == r.noContent

OtherId(id) == CHOOSE i \in Ids : i # id

\* The items the handler and the command hold by pointer: "original" is the
\* item the fetch returned, "copy" what clone.Clone allocates.
Refs == {"original", "copy"}
Heap(original) == [ref \in Refs |-> IF ref = "original" THEN original ELSE NilItem]

\* The command is handed the original itself.
cloneAlias(heap, ref) == [heap |-> heap, ref |-> ref]

\* clone.Clone: a deep copy, in a new allocation.
clone_Clone(heap, ref) == [heap |-> [heap EXCEPT !["copy"] = heap[ref]], ref |-> "copy"]

\* What a command does to the payload of the item it works on.
Commanded(does, item) ==
    IF does = "edit" THEN Edit(item)
    ELSE IF does = "rename" THEN [item EXCEPT !.Payload = [f \in Fields |-> IF f = "id" THEN OtherId(item.ID) ELSE item.Payload[f]]]
    ELSE IF does = "dropId" THEN [item EXCEPT !.Payload = [f \in Fields |-> IF f = "id" THEN Absent ELSE item.Payload[f]]]
    ELSE item

\* The command of the route: it works in place on the item it is given (g:
\* the heap and the pointer) and returns that item.
RunCommand(command, g, payload) ==
    [err |-> command.err,
     heap |-> [g.heap EXCEPT ![g.ref] = Commanded(command.does, @)],
     item |-> Commanded(command.does, g.heap[g.ref]),
     body |-> command.does,
     headers |-> <<"command">>]

\* Another writer, between the fetch and the storage call of the request:
\* it replaces the document, or creates it where there is none.
Racer(st, id) ==
    [st EXCEPT ![id] = IF @.nil THEN Stored(id, "x")
                       ELSE Stored(id, IF @.Payload["a"] = "x" THEN "y" ELSE "x")]


\* ------------------------------------------------------- rest: PUT on item
\* What the user's callbacks and the other clients do during one request:
\* the hooks and the backend in the fetch and in the write, the fields the
\* schema's validators refuse, and whether another writer comes in between.
PutEnv(fetch, write, rejects, race) ==
    [fetch |-> fetch, write |-> write, rejects |-> rejects, race |-> race]

\* The answer of the handler (status, error or item, headers) with the
\* record of what it did: the steps taken, the mode selected, the original
\* fetched, what Validate was given, the arguments of the storage write, the
\* calls of the pipeline and the storage content afterwards.
PutOut(st) ==
    [status |-> 0, err |-> Nil, issues |-> {}, item |-> NilItem, noBody |-> FALSE,
     response |-> "", withItem |-> FALSE, headers |-> <<>>, panic |-> FALSE,
     steps |-> <<>>, mode |-> "", original |-> NilItem, originalAfter |-> NilItem,
     changes |-> EmptyPayload, base |-> EmptyPayload,
     written |-> NilItem, expected |-> NilItem,
     preHookEtag |-> NoEtag, postHookEtag |-> NoEtag,
     calls |-> <<>>, store |-> st]

Step(o, step) == [o EXCEPT !.steps = @ \o <<step>>]
Fail(o, code, err) == [o EXCEPT !.status = code, !.err = err]
\* e, code := NewError(err); return code, nil, e
failAs(o, e) == Fail(o, e.code, e.err)
FailWith(o, err) == failAs(o, NewError(err))

\* Each handler below is cut where it calls the pipeline: the operator that
\* follows a call takes the call's result as an argument.

\* The same as putRespond with the body left out whenever the request prefers
\* it, whatever the hashes.
putRespondElideAlways(o, r, item, status, preHookEtag) ==
    LET projected == Projection_Eval(r.projection, item.Payload)
        e == GenEtag(projected)
        postHookEtag == IF r.projection # {} THEN e.etag ELSE item.ETag
        elide == isNoContent(r)
    IN  IF r.projection # {} /\ e.err # Nil THEN FailWith(o, e.err)
        ELSE [Step(o, "respond") EXCEPT
                !.status = IF elide /\ status = 200 THEN 204 ELSE status,
                !.item = [item EXCEPT !.Payload = IF elide THEN EmptyPayload ELSE projected],
                !.noBody = elide,
                !.preHookEtag = preHookEtag,
                !.postHookEtag = postHookEtag]

\* itemPutCreateReplace, from the response on
putRespond(o, r, item, status, preHookEtag) ==
    LET projected == Projection_Eval(r.projection, item.Payload)
        e == GenEtag(projected)
        postHookEtag == IF r.projection # {} THEN e.etag ELSE item.ETag
        elide == isNoContent(r) /\ preHookEtag = postHookEtag
    IN  IF r.projection # {} /\ e.err # Nil THEN FailWith(o, e.err)
        ELSE [Step(o, "respond") EXCEPT
                !.status = IF elide /\ status = 200 THEN 204 ELSE status,
                !.item = [item EXCEPT !.Payload = IF elide THEN EmptyPayload ELSE projected],
                !.noBody = elide,
                !.preHookEtag = preHookEtag,
                !.postHookEtag = postHookEtag]

\* The same as putStored with the write made a second time when it failed.
putStoredRetrying(o, r, status, preHookEtag, item, expected, w) ==
    LET o1 == [Step(o, IF expected.nil THEN "insert" ELSE "update") EXCEPT
                 !.written = item, !.expected = expected,
                 !.calls = @ \o w.trace \o (IF w.err # Nil THEN w.trace ELSE <<>>),
                 !.store = w.store]
    IN  IF w.err # Nil THEN FailWith(o1, w.err)
        ELSE putRespond(o1, r, w.caller[1], status, preHookEtag)

\* itemPutCreateReplace, after rsrc.Update or rsrc.Insert returned w
putStored(o, r, status, preHookEtag, item, expected, w) ==
    LET o1 == [Step(o, IF expected.nil THEN "insert" ELSE "update") EXCEPT
                 !.written = item, !.expected = expected,
                 !.calls = @ \o w.trace, !.store = w.store]
    IN  IF w.err # Nil THEN FailWith(o1, w.err)
        ELSE putRespond(o1, r, w.caller[1], status, preHookEtag)

\* The same as putStore but for the expected-current-state handed to Update:
\* the validated item instead of the original.
putStoreItemAsOriginal(o, mw, st, r, item, original, status, env) ==
    LET e == GenEtag(Projection_Eval(r.projection, item.Payload))
        preHookEtag == IF r.projection # {} THEN e.etag ELSE item.ETag
    IN  IF r.projection # {} /\ e.err # Nil THEN FailWith(o, e.err)
        ELSE IF original.nil
        THEN putStored(o, r, status, preHookEtag, item, NilItem,
                       Insert(mw, st, <<item>>, env.write))
        ELSE putStored(o, r, status, preHookEtag, item, item,
                       Update(mw, st, item, item, env.write))

\* itemPutCreateReplace, the hash before the hooks and the storage write
putStore(o, mw, st, r, item, original, status, env) ==
    LET e == GenEtag(Projection_Eval(r.projection, item.Payload))
        preHookEtag == IF r.projection # {} THEN e.etag ELSE item.ETag
    IN  IF r.projection # {} /\ e.err # Nil THEN FailWith(o, e.err)
        ELSE IF original.nil
        THEN putStored(o, r, status, preHookEtag, item, NilItem,
                       Insert(mw, st, <<item>>, env.write))
        ELSE putStored(o, r, status, preHookEtag, item, original,
                       Update(mw, st, item, original, env.write))

\* The same as putValidated with the field errors of Validate dropped.
putValidatedIgnoringErrors(o, mw, st, r, original, env, v, n) ==
    IF ~original.nil /\ v.doc["id"] # Absent /\ v.doc["id"] # original.ID
    THEN Fail(o, 422, rest_Error(422, "Cannot change document ID"))
    ELSE IF n.err # Nil THEN FailWith(o, n.err)
    ELSE putStore(Step(o, "newItem"), mw, st, r, n.item, original,
                  IF original.nil THEN 201 ELSE 200, env)

\* The same as putValidated with the identifier of the document not compared.
putValidatedIgnoringId(o, mw, st, r, original, env, v, n) ==
    IF v.errs # {}
    THEN [Fail(o, 422, rest_Error(422, "Document contains error(s)")) EXCEPT
            !.issues = v.errs]
    ELSE IF n.err # Nil THEN FailWith(o, n.err)
    ELSE putStore(Step(o, "newItem"), mw, st, r, n.item, original,
                  IF original.nil THEN 201 ELSE 200, env)

\* itemPutCreateReplace, from Validate to NewItem
putValidated(o, mw, st, r, original, env, v, n) ==
    IF v.errs # {}
    THEN [Fail(o, 422, rest_Error(422, "Document contains error(s)")) EXCEPT
            !.issues = v.errs]
    ELSE IF ~original.nil /\ v.doc["id"] # Absent /\ v.doc["id"] # original.ID
    THEN Fail(o, 422, rest_Error(422, "Cannot change document ID"))
    ELSE IF n.err # Nil THEN FailWith(o, n.err)
    ELSE putStore(Step(o, "newItem"), mw, st, r, n.item, original,
                  IF original.nil THEN 201 ELSE 200, env)

putPrepared(o, mw, st, r, original, env, p, v) ==
    putValidated([Step(Step(o, "prepare"), "validate") EXCEPT
                    !.changes = p.changes, !.base = p.base],
                 mw, st, r, original, env, v, NewItem(v.doc))

\* itemPutCreateReplace, Prepare and the lookup fields
putValidate(o, mw, st, r, original, env, p) ==
    putPrepared(o, mw, st, r, original, env, p, Validate(p.changes, p.base, env.rejects))

\* The same as putCheck with the integrity error dropped.
putCheckIgnoringIntegrity(o, mw, st, r, conf, original, env) ==
    LET mode == IF original.nil THEN "Create" ELSE "Replace"
        o1 == [Step(o, "mode") EXCEPT !.mode = mode]
    IN  IF ~IsModeAllowed(conf, mode)
        THEN Fail(o1, 405, rest_Error(405, "Method Not Allowed"))
        ELSE putValidate(Step(o1, "integrity"), mw, st, r, original, env,
                         setLookupFields(Prepare(r.payload, original, ~original.nil),
                                         r.id, TRUE))

\* The same as putCheck with the mode of a found original taken as Create.
putCheckModeCreate(o, mw, st, r, conf, original, env) ==
    LET mode == "Create"
        o1 == [Step(o, "mode") EXCEPT !.mode = mode]
        ie == checkIntegrityRequest(r, original)
    IN  IF ~IsModeAllowed(conf, mode)
        THEN Fail(o1, 405, rest_Error(405, "Method Not Allowed"))
        ELSE IF ie # Nil THEN Fail(Step(o1, "integrity"), ie.code, ie)
        ELSE putValidate(Step(o1, "integrity"), mw, st, r, original, env,
                         setLookupFields(Prepare(r.payload, original, ~original.nil),
                                         r.id, TRUE))

\* itemPutCreateReplace, the mode and the integrity check
putCheck(o, mw, st, r, conf, original, env) ==
    LET mode == IF original.nil THEN "Create" ELSE "Replace"
        o1 == [Step(o, "mode") EXCEPT !.mode = mode]
        ie == checkIntegrityRequest(r, original)
    IN  IF ~IsModeAllowed(conf, mode)
        THEN Fail(o1, 405, rest_Error(405, "Method Not Allowed"))
        ELSE IF ie # Nil THEN Fail(Step(o1, "integrity"), ie.code, ie)
        ELSE putValidate(Step(o1, "integrity"), mw, st, r, original, env,
                         setLookupFields(Prepare(r.payload, original, ~original.nil),
                                         r.id, TRUE))

\* decodePayload and route.Query
badRequest(o, r) ==
    Fail(Step(o, "decode"), 400,
         rest_Error(400, IF r.bad = "payload" THEN "Malformed body" ELSE "Invalid query"))

\* The storage content the request works on after its fetch.
afterFetch(st, r, env) == IF env.race THEN Racer(st, r.id) ELSE st

\* What a handler did once rsrc.Find returned f.
Fetched(st, r, env, f) ==
    [Step(PutOut(st), "fetch") EXCEPT !.calls = f.trace, !.store = afterFetch(f.store, r, env)]

\* itemPutCreateReplace, after rsrc.Find returned f
putFetched(o, mw, r, conf, env, f) ==
    IF f.err # Nil /\ f.err # rest_ErrNotFound THEN FailWith(o, f.err)
    ELSE IF f.list.nil THEN [o EXCEPT !.panic = TRUE]
    ELSE IF Len(f.list.Items) = 1
    THEN putCheck([o EXCEPT !.original = f.list.Items[1]], mw, o.store, r, conf,
                  f.list.Items[1], env)
    ELSE putCheck(o, mw, o.store, r, conf, NilItem, env)

putFetch(mw, st, r, conf, env, f) == putFetched(Fetched(st, r, env, f), mw, r, conf, env, f)

itemPutCreateReplace(mw, st, r, conf, env) ==
    IF r.bad # "" THEN badRequest(PutOut(st), r)
    ELSE putFetch(mw, st, r, conf, env, Find(mw, st, Query(r.id, 1), env.fetch))

\* itemPutCommand, after rsrc.Update returned w
commandStored(o, r, item, original, w) ==
    LET o1 == [Step(o, "update") EXCEPT
                 !.written = item, !.expected = original,
                 !.calls = @ \o w.trace, !.store = w.store]
    IN  IF w.err # Nil THEN FailWith(o1, w.err)
        ELSE [o1 EXCEPT !.item = [w.caller[1] EXCEPT
                                    !.Payload = Projection_Eval(r.projection, @)]]

commandValidated(o, mw, st, r, original, env, v, n) ==
    IF v.errs # {}
    THEN [Fail(o, 422, rest_Error(422, "Document contains error(s)")) EXCEPT
            !.issues = v.errs]
    ELSE IF v.doc["id"] # Absent /\ v.doc["id"] # original.ID
    THEN Fail(o, 422, rest_Error(422, "Cannot change document ID"))
    ELSE IF n.err # Nil THEN FailWith(o, n.err)
    ELSE commandStored(Step(o, "newItem"), r, n.item, original,
                       Update(mw, st, n.item, original, env.write))

commandPrepared(o, mw, st, r, original, env, p, v) ==
    commandValidated([Step(o, "validate") EXCEPT !.changes = p.changes, !.base = p.base],
                     mw, st, r, original, env, v, NewItem(v.doc))

\* itemPutCommand, the validate/store path of a command that changed the payload
commandStore(o, mw, st, r, original, env, p) ==
    commandPrepared(o, mw, st, r, original, env, p,
                    Validate(p.changes, p.base, env.rejects))

\* itemPutCommand, the response
commandRespond(o, r, c, changed) ==
    IF o.err # Nil THEN o
    ELSE [Step(o, "respond") EXCEPT
            !.status = 200, !.headers = c.headers, !.response = c.body,
            !.withItem = (~isNoContent(r)) \/ changed]

\* The same as commandChanges with the validate/store path taken whatever the
\* change set.
commandChangesAlwaysStore(o, mw, st, r, original, env, c, p) ==
    commandRespond(commandStore(o, mw, st, r, original, env,
                                setLookupFields(p, r.id, FALSE)),
                   r, c, TRUE)

\* itemPutCommand, after Prepare returned p
commandChanges(o, mw, st, r, original, env, c, p) ==
    IF NumChanges(p.changes) > 0
    THEN commandRespond(commandStore(o, mw, st, r, original, env,
                                     setLookupFields(p, r.id, FALSE)),
                        r, c, TRUE)
    ELSE commandRespond(o, r, c, FALSE)

\* itemPutCommand, after the command returned c
commandRan(o, mw, st, r, original, env, c) ==
    IF c.err # Nil THEN FailWith(Step(o, "command"), c.err)
    ELSE commandChanges([Step(Step(o, "command"), "prepare") EXCEPT !.item = c.item],
                        mw, st, r, original, env, c,
                        Prepare(c.item.Payload, original, TRUE))

\* itemPutCommand, after the command returned c: the original is what the
\* handler's pointer now reaches.
commandReturned(o, mw, st, r, env, c) ==
    commandRan([o EXCEPT !.originalAfter = c.heap["original"]], mw, st, r,
               c.heap["original"], env, c)

\* The same as commandFetched with the command run before the integrity check.
commandFetchedUnchecked(o, mw, r, env, f) ==
    IF f.err # Nil THEN FailWith(o, f.err)
    ELSE IF f.list.nil THEN [o EXCEPT !.panic = TRUE]
    ELSE IF Len(f.list.Items) = 0 THEN Fail(o, rest_ErrNotFound.code, rest_ErrNotFound)
    ELSE LET original == f.list.Items[1]
             o2 == [Step(o, "integrity") EXCEPT !.original = original, !.mode = "Command"]
         IN  commandReturned(o2, mw, o.store, r, env,
                             RunCommand(r.command, clone_Clone(Heap(original), "original"),
                                        r.payload))

\* itemPutCommand, after rsrc.Find returned f
commandFetched(o, mw, r, env, f) ==
    IF f.err # Nil THEN FailWith(o, f.err)
    ELSE IF f.list.nil THEN [o EXCEPT !.panic = TRUE]
    ELSE IF Len(f.list.Items) = 0 THEN Fail(o, rest_ErrNotFound.code, rest_ErrNotFound)
    ELSE LET original == f.list.Items[1]
             ie == checkIntegrityRequest(r, original)
             o2 == [Step(o, "integrity") EXCEPT !.original = original, !.mode = "Command"]
         IN  IF ie # Nil THEN Fail(o2, ie.code, ie)
             ELSE commandReturned(o2, mw, o.store, r, env,
                                  RunCommand(r.command, clone_Clone(Heap(original), "original"),
                                             r.payload))

commandFetch(mw, st, r, env, f) == commandFetched(Fetched(st, r, env, f), mw, r, env, f)

itemPutCommand(mw, st, r, env) ==
    IF r.bad # "" THEN badRequest(PutOut(st), r)
    ELSE commandFetch(mw, st, r, env, Find(mw, st, Query(r.id, 1), env.fetch))

itemPut(mw, st, r, conf, env) ==
    IF r.command.defined THEN itemPutCommand(mw, st, r, env)
    ELSE itemPutCreateReplace(mw, st, r, conf, env)

\* ------------------------------------------------- SpecPut: one PUT request
\* A PUT on /items/{id} against a resource holding one document, "i1", last
\* updated at MaxTime; "i2" does not exist.
PutStore0 ==
    [i \in Ids |-> IF i = "i1" THEN [Stored(i, "x") EXCEPT !.Updated = MaxTime] ELSE NilItem]

PutPayloads == {p \in [Fields -> Vals \cup Ids \cup {Absent}] :
                   p["id"] \in Ids \cup {Absent} /\ p["a"] \in Vals \cup {Absent}}
\* The conditional headers: none, a hash that matches or not, a time the
\* document is unmodified since or not, and a matching hash with a stale time.
Conditions ==
    {<<NoEtag, NoTime>>} \cup
    {<<Stored("i1", a).ETag, NoTime>> : a \in Vals} \cup
    {<<NoEtag, t>> : t \in {0, MaxTime}} \cup
    {<<Stored("i1", "x").ETag, 0>>}
Projections == {{}, {"id"}}
Commands == {Command(Nil, "nothing"), Command(Nil, "edit"), Command(Nil, "rename"),
             Command(Nil, "dropId"), Command(errHook, "nothing"), Command(errHook, "edit")}
BadRequests ==
    {Request(bad, "i1", EmptyPayload, NoEtag, NoTime, FALSE, {}, c) :
        bad \in {"payload", "query"}, c \in {NoCommand}}
PutRequests(payloads, commands) ==
    {Request("", id, p, c[1], c[2], nc, proj, cmd) :
        id \in Ids, p \in payloads, c \in Conditions, nc \in BOOLEAN,
        proj \in Projections, cmd \in commands}
Confs == {Conf(m) : m \in SUBSET {"Create", "Replace"}}
PutFetchEnvs ==
    {NoHooks, [NoHooks EXCEPT !.fault = context_Canceled],
     [NoHooks EXCEPT !.preErr = rest_ErrNotFound], [NoHooks EXCEPT !.postEdit = TRUE]}
PutWriteEnvs ==
    {NoHooks, [NoHooks EXCEPT !.fault = context_Canceled],
     [NoHooks EXCEPT !.preErr = resource_ErrForbidden],
     [NoHooks EXCEPT !.preEdit = TRUE], [NoHooks EXCEPT !.postEdit = TRUE],
     [NoHooks EXCEPT !.preEdit = TRUE, !.postEdit = TRUE]}
\* A request ends at its first failure, so the fetch and the validators
\* deviate alone; the hooks and the backend of the write deviate with and
\* without another writer in between.
PutEnvs ==
    {PutEnv(f, NoHooks, {}, FALSE) : f \in PutFetchEnvs} \cup
    {PutEnv(NoHooks, NoHooks, {"a"}, FALSE)} \cup
    {PutEnv(NoHooks, w, {}, race) : w \in PutWriteEnvs, race \in BOOLEAN}

IdlePut ==
    [op |-> "idle", r |-> Request("", "i1", EmptyPayload, NoEtag, NoTime, FALSE, {}, NoCommand),
     conf |-> Conf({}), env |-> PutEnv(NoHooks, NoHooks, {}, FALSE), before |-> PutStore0,
     out |-> PutOut(PutStore0)]

Served(r, conf, env, o) ==
    /\ put' = [op |-> "PUT", r |-> r, conf |-> conf, env |-> env, before |-> store, out |-> o]
    /\ store' = o.store
    /\ UNCHANGED <<middlewares, call, proc, root, validator>>

\* PUT on a route without command
DoPut ==
    /\ put.op = "idle"
    /\ \E r \in PutRequests(PutPayloads, {NoCommand}) \cup BadRequests, conf \in Confs,
          env \in PutEnvs :
          Served(r, conf, env, itemPut(middlewares, store, r, conf, env))

\* PUT on the route of a command
DoPutCommand ==
    /\ put.op = "idle"
    /\ \E r \in PutRequests({Doc(Absent, "y")}, Commands), env \in PutEnvs :
          Served(r, Conf({"Create", "Replace"}), env,
                 itemPut(middlewares, store, r, Conf({"Create", "Replace"}), env))

InitPut ==
    /\ middlewares \in ServingMiddlewares
    /\ store = PutStore0
    /\ call = Idle
    /\ proc = NoProc
    /\ put = IdlePut
    /\ root = NoRoot
    /\ validator = NoValidator

NextPut == DoPut \/ DoPutCommand

SpecPut == InitPut /\ [][NextPut]_vars


\* ----------------------------------------------------------- PUT: claims
HasStep(step) == \E i \in 1..Len(put.out.steps) : put.out.steps[i] = step
LastStep == IF put.out.steps = <<>> THEN "" ELSE put.out.steps[Len(put.out.steps)]
\* The calls of the request that reached the backend, by operation.
BackendCalls(ops) ==
    {i \in 1..Len(put.out.calls) :
        put.out.calls[i].ev = "storage" /\ put.out.calls[i].op \in ops}
PreHookCalls(ops) ==
    {i \in 1..Len(put.out.calls) :
        put.out.calls[i].ev = "pre" /\ put.out.calls[i].op \in ops}
CreateReplace == put.op = "PUT" /\ ~put.r.command.defined
CommandPut == put.op = "PUT" /\ put.r.command.defined

\* The item the fetch of the request returns: the stored document, as the
\* OnFound hook leaves it.
FetchedItem ==
    IF put.env.fetch.postEdit THEN Edit(put.before[put.r.id]) ELSE put.before[put.r.id]

\* C6: in the create/replace path of PUT the pipeline's Update, and the
\* storage Update under it, get the item the fetch returned as their
\* expected-current-state (with the id and the content hash of the document
\* as stored at the fetch) and the validated item as the new one; the write
\* is an Update if and only if an original was found and an Insert if and
\* only if none was.
C6_UpdateAgainstOriginal ==
    CreateReplace =>
        /\ \A i \in PreHookCalls({"Update"}) \cup BackendCalls({"Update"}) :
              /\ ~put.out.original.nil
              /\ put.out.calls[i].orig = put.out.original
              /\ put.out.original = FetchedItem
              /\ put.out.calls[i].orig.ID = put.before[put.r.id].ID
              /\ put.out.calls[i].orig.ETag = put.before[put.r.id].ETag
        /\ \A i \in PreHookCalls({"Update"}) : put.out.calls[i].items = <<put.out.written>>
        /\ HasStep("update") <=> (PreHookCalls({"Update"}) # {})
        /\ HasStep("insert") <=> (PreHookCalls({"Insert"}) # {})
        /\ (HasStep("update") \/ HasStep("insert")) =>
              /\ HasStep("update") <=> ~put.out.original.nil
              /\ HasStep("insert") <=> put.out.original.nil
              /\ put.out.original.nil <=> put.before[put.r.id].nil
        /\ (put.out.status \in {200, 201, 204}) => (HasStep("update") \/ HasStep("insert"))

\* C6's case: a replace whose validated item differs from the original it
\* fetched, while another writer replaced the document after the fetch: the
\* storage Update got the original and answered Conflict.
C6_Witness ==
    /\ CreateReplace
    /\ put.env.race
    /\ put.out.written # put.out.original
    /\ \E i \in BackendCalls({"Update"}) :
          /\ put.out.calls[i].orig = put.out.original
          /\ put.out.calls[i].err = resource_ErrConflict
    /\ put.out.status = 409

\* The conditional headers of the request against the original it fetched.
Mismatch ==
    /\ ~put.out.original.nil
    /\ \/ put.r.ifMatch # NoEtag /\ put.r.ifMatch # put.out.original.ETag
       \/ put.r.ifUnmod # NoTime /\ put.out.original.Updated > put.r.ifUnmod

\* C7: in the replace and command paths of PUT, a request whose integrity
\* check finds the If-Match hash or the If-Unmodified-Since time not matching
\* the fetched original fails with PreconditionFailed (412), and the check is
\* its last step: no command, no Prepare or Validate, no call of the
\* pipeline's Insert or Update.
C7_PreconditionFailedStops ==
    (put.op = "PUT" /\ HasStep("integrity") /\ Mismatch) =>
        /\ put.out.status = 412
        /\ put.out.err = rest_ErrPreconditionFailed
        /\ LastStep = "integrity"
        /\ \A step \in {"command", "prepare", "validate", "newItem", "insert", "update"} :
              ~HasStep(step)
        /\ PreHookCalls({"Insert", "Update"}) = {}
        /\ BackendCalls({"Insert", "Update"}) = {}
        /\ put.out.store = afterFetch(put.before, put.r, put.env)

\* C7's case: a command route and a replace, each with a stale If-Match or a
\* time before the last update, answered 412.
C7_Witness ==
    /\ put.op = "PUT"
    /\ HasStep("integrity")
    /\ Mismatch
    /\ put.out.status = 412
    /\ put.r.command.defined \/ put.r.ifUnmod # NoTime

\* C10: PUT without command fetches with a window of one item, so at most one
\* original; the mode is Create if and only if no original was found (no
\* document under the id) and Replace if and only if one was; a mode the
\* configuration does not allow ends the request with 405 at the mode check,
\* before the integrity check, Prepare, Validate and any call of the
\* pipeline's Insert or Update, and an allowed mode never does.
C10_ModeBeforeIntegrity ==
    (CreateReplace /\ HasStep("mode")) =>
        /\ Cardinality(PreHookCalls({"Find"})) = 1
        /\ \A i \in PreHookCalls({"Find"}) \cup BackendCalls({"Find"}) :
              /\ put.out.calls[i].q = Query(put.r.id, 1)
              /\ Len(put.out.calls[i].items) <= 1
        /\ put.out.mode = "Create" <=> put.out.original.nil
        /\ put.out.mode = "Replace" <=> ~put.out.original.nil
        /\ put.out.original = FetchedItem
        /\ put.out.original.nil <=> put.before[put.r.id].nil
        /\ (~IsModeAllowed(put.conf, put.out.mode)) =>
              /\ put.out.status = 405
              /\ put.out.err.code = 405
              /\ LastStep = "mode"
              /\ \A step \in {"integrity", "prepare", "validate", "newItem", "insert", "update"} :
                    ~HasStep(step)
              /\ PreHookCalls({"Insert", "Update"}) = {}
              /\ BackendCalls({"Insert", "Update"}) = {}
        /\ IsModeAllowed(put.conf, put.out.mode) => (put.out.status # 405)

\* C10's case: a resource that allows Create only, a PUT on a document that
\* exists with a stale If-Match: the answer is 405, not 412.
C10_Witness ==
    /\ CreateReplace
    /\ put.conf = Conf({"Create"})
    /\ put.out.mode = "Replace"
    /\ Mismatch
    /\ put.out.status = 405

\* The position of a step the request took.
StepAt(step) == CHOOSE i \in 1..Len(put.out.steps) : put.out.steps[i] = step
Before(s1, s2) == HasStep(s1) /\ HasStep(s2) /\ StepAt(s1) < StepAt(s2)
\* What Validate answered to the change set and base it was given.
FieldErrors == Validate(put.out.changes, put.out.base, put.env.rejects).errs

\* C11: a PUT reaches the pipeline's Insert or Update only after Validate was
\* called and returned no field error (and, with an original, after the
\* integrity check, which precedes Validate); a Validate that reports a field
\* error ends the request there with 422 and the field errors, with no call
\* of Insert or Update and the storage content as it was.
C11_ValidatedBeforeStored ==
    (put.op = "PUT") =>
        /\ \A w \in {"insert", "update"} : HasStep(w) =>
              /\ Before("validate", w)
              /\ FieldErrors = {}
              /\ Before("fetch", "validate")
              /\ (~put.out.original.nil) => Before("integrity", "validate")
        /\ (PreHookCalls({"Insert", "Update"}) # {}) => (HasStep("insert") \/ HasStep("update"))
        /\ (BackendCalls({"Insert", "Update"}) # {}) => (PreHookCalls({"Insert", "Update"}) # {})
        /\ (HasStep("validate") /\ FieldErrors # {}) =>
              /\ put.out.status = 422
              /\ put.out.err = rest_Error(422, "Document contains error(s)")
              /\ put.out.issues = FieldErrors
              /\ LastStep = "validate"
              /\ PreHookCalls({"Insert", "Update"}) = {}
              /\ BackendCalls({"Insert", "Update"}) = {}
              /\ put.out.store = afterFetch(put.before, put.r, put.env)

\* C11's case: a replace whose written field the schema refuses, answered
\* 422 with that field's error.
C11_Witness ==
    /\ CreateReplace
    /\ ~put.out.original.nil
    /\ HasStep("validate")
    /\ put.out.issues = {"a"}
    /\ put.out.status = 422

\* The document Validate made of the change set and base it was given.
ValidatedDoc == Validate(put.out.changes, put.out.base, put.env.rejects).doc
ChangesId ==
    /\ put.op = "PUT" /\ HasStep("validate") /\ FieldErrors = {}
    /\ ~put.out.original.nil
    /\ ValidatedDoc["id"] # Absent
    /\ ValidatedDoc["id"] # put.out.original.ID

\* C12: in the replace and command paths of PUT, a validated document whose
\* id differs from the original's ends the request with 422 "Cannot change
\* document ID" before NewItem, with no call of the pipeline's Update and the
\* storage content as it was; so every Update the handler issues, and every
\* storage Update under it, has a new item with the id of its original.
C12_IdentityImmutable ==
    /\ ChangesId =>
          /\ put.out.status = 422
          /\ put.out.err = rest_Error(422, "Cannot change document ID")
          /\ LastStep = "validate"
          /\ PreHookCalls({"Insert", "Update"}) = {}
          /\ BackendCalls({"Insert", "Update"}) = {}
          /\ put.out.store = afterFetch(put.before, put.r, put.env)
    /\ (put.op = "PUT" /\ HasStep("update")) =>
          /\ ~put.out.expected.nil
          /\ put.out.written.ID = put.out.expected.ID
          /\ put.out.expected = put.out.original
    /\ (put.op = "PUT") =>
          \A i \in PreHookCalls({"Update"}) \cup BackendCalls({"Update"}) :
              put.out.calls[i].items[1].ID = put.out.calls[i].orig.ID

\* C12's case: a replace whose body names another id than the original's, or
\* a command that renames the item it was given, answered 422.
C12_Witness ==
    /\ ChangesId
    /\ put.out.err = rest_Error(422, "Cannot change document ID")
    /\ \/ CreateReplace /\ put.r.payload["id"] = OtherId(put.out.original.ID)
       \/ CommandPut /\ put.r.command.does = "rename"

\* C13: in the create/replace path and in the command path of PUT, when
\* Validate is called the base payload has the id of the request path under
\* "id", and the change set has no tombstone on "id".
C13_LookupFieldsForced ==
    (put.op = "PUT" /\ HasStep("validate")) =>
        /\ put.out.base["id"] = put.r.id
        /\ put.out.changes["id"] # Tombstone

\* The item of a create/replace once the pipeline's Insert or Update returned
\* without error: the validated item as the pre-hook and the post-hook of the
\* write leave it, with the hash taken between the two.
AfterPreHook == IF put.env.write.preEdit THEN Edit(put.out.written) ELSE put.out.written
PutResult ==
    [(IF put.env.write.postEdit THEN Edit(AfterPreHook) ELSE AfterPreHook) EXCEPT
        !.ETag = GenEtag(AfterPreHook.Payload).etag]
\* The two hashes the handler compares: the item's ETag, or with a projection
\* the hash of the projected payload, before and after the write.
HashOf(item) ==
    IF put.r.projection = {} THEN item.ETag
    ELSE GenEtag(Projection_Eval(put.r.projection, item.Payload)).etag
Answered == CreateReplace /\ LastStep = "respond"
Elided == isNoContent(put.r) /\ HashOf(put.out.written) = HashOf(PutResult)
FullItem ==
    /\ ~put.out.noBody
    /\ put.out.item = [PutResult EXCEPT !.Payload = Projection_Eval(put.r.projection, @)]

\* C14 as stated: a PUT with the no-body preference whose two hashes are
\* equal is answered with an empty body and status 204, any other with the
\* full projected item.
C14_AsStated ==
    Answered =>
        IF Elided
        THEN put.out.noBody /\ put.out.item.Payload = EmptyPayload /\ put.out.status = 204
        ELSE FullItem /\ put.out.status \in {200, 201}

\* C14: a create/replace PUT with the no-body preference whose two hashes
\* (the item's ETag before the write and after it or, with a projection, the
\* hashes of the projected payload) are equal is answered with an empty body,
\* with status 204 when it replaced a document and 201 when it created one;
\* any other is answered with the full projected item, 200 on replace and
\* 201 on create.
C14_NoContentElision ==
    Answered =>
        /\ put.out.status = IF put.out.original.nil THEN 201
                            ELSE IF Elided THEN 204 ELSE 200
        /\ IF Elided
           THEN put.out.noBody /\ put.out.item.Payload = EmptyPayload
           ELSE FullItem

\* C14's case: a create with the no-body preference and untouched by the
\* hooks: no body, and 201.
C14_Witness ==
    /\ Answered
    /\ Elided
    /\ put.out.original.nil
    /\ put.out.noBody
    /\ put.out.status = 201

\* A command route whose command returned without error, and what the command
\* made of the original the fetch returned.
CommandReturned == CommandPut /\ HasStep("command") /\ put.r.command.err = Nil
CommandItem == Commanded(put.r.command.does, FetchedItem)
CommandChanged == NumChanges(Prepare(CommandItem.Payload, FetchedItem, TRUE).changes) > 0
\* The validate/store path went through: no field error, same id, an item.
CommandStorable ==
    /\ FieldErrors = {}
    /\ ValidatedDoc["id"] = FetchedItem.ID
    /\ NewItem(ValidatedDoc).err = Nil
CommandStorePath ==
    /\ HasStep("validate") <=> CommandChanged
    /\ HasStep("update") <=> (CommandChanged /\ CommandStorable)
    /\ HasStep("update") <=> (PreHookCalls({"Update"}) # {})
    /\ PreHookCalls({"Insert"}) = {}
    /\ \A i \in PreHookCalls({"Update"}) : put.out.calls[i].orig = FetchedItem
    /\ (~CommandChanged) => (put.out.store = afterFetch(put.before, put.r, put.env))
    /\ (HasStep("update") /\ put.out.err = Nil) =>
          put.out.item = [PutResult EXCEPT !.Payload = Projection_Eval(put.r.projection, @)]
    /\ (~CommandChanged) => (put.out.item = CommandItem /\ LastStep = "respond")
    /\ (LastStep = "respond") =>
          /\ put.out.status = 200
          /\ put.out.response = put.r.command.does
          /\ put.out.headers = <<"command">>

\* C15 as stated: after the command returned without error the validate/store
\* path runs if and only if the command changed the payload, with no Update
\* when nothing changed, and the response always carries the command's
\* response body and the item payload.
C15_AsStated ==
    CommandReturned =>
        /\ CommandStorePath
        /\ (LastStep = "respond") => put.out.withItem

\* C15: after the command returned without error, Validate runs if and only
\* if Prepare finds a change between the returned payload and the original;
\* the Update (against the original) runs if and only if moreover the
\* document validates with the original's id; nothing changed means no
\* Update; the response carries the command's response body, and the item
\* payload unless the request has the no-body preference and nothing changed.
C15_CommandStoresIffChanged ==
    CommandReturned =>
        /\ CommandStorePath
        /\ (LastStep = "respond") =>
              (put.out.withItem <=> (~isNoContent(put.r) \/ CommandChanged))

\* C15's case: a command that changes nothing on a request with the no-body
\* preference: no Update, and a response with the command's body alone.
C15_Witness ==
    /\ CommandReturned
    /\ ~CommandChanged
    /\ isNoContent(put.r)
    /\ LastStep = "respond"
    /\ ~put.out.withItem
    /\ put.out.response = "nothing"
    /\ PreHookCalls({"Update"}) = {}

\* C16: the command works on a copy: once it returned, with or without error
\* and whatever it did to the item it was given, the original the handler
\* holds is the item the fetch returned; Prepare takes the change set against
\* that original and its payload as base, and the Update gets it as the
\* expected current state.
C16_CommandGetsCopy ==
    (CommandPut /\ HasStep("command")) =>
        /\ put.out.originalAfter = FetchedItem
        /\ put.out.originalAfter = put.out.original
        /\ HasStep("prepare") => (HasStep("validate") <=> CommandChanged)
        /\ HasStep("validate") =>
              /\ put.out.base = [FetchedItem.Payload EXCEPT !["id"] = put.r.id]
              /\ put.out.changes = Prepare(CommandItem.Payload, FetchedItem, TRUE).changes
        /\ HasStep("update") => (put.out.expected = FetchedItem)
        /\ \A i \in PreHookCalls({"Update"}) \cup BackendCalls({"Update"}) :
              put.out.calls[i].orig = FetchedItem

\* C16's case: a command that edits the item it was given: the edited item is
\* stored against the original as fetched.
C16_Witness ==
    /\ CommandPut
    /\ put.r.command.does = "edit"
    /\ HasStep("update")
    /\ put.out.written.Payload = CommandItem.Payload
    /\ put.out.written.Payload # FetchedItem.Payload
    /\ put.out.expected = FetchedItem
    /\ put.out.originalAfter = FetchedItem
    /\ put.out.status = 200

\* -------------------------------------------------------- MultiGet: claims
MultiCall == call.op = "MultiGet"
Events(ev) == {i \in 1..Len(call.trace) : call.trace[i].ev = ev}
AllPreOk == \A i \in 1..Len(call.args) : call.env.pre[i] = Nil

\* C17: MultiGet runs the default handler alone, whatever interceptors are
\* registered; the handler calls the pre-hook once for every id, in the order
\* of ids and whatever the earlier pre-hooks returned, before anything else;
\* it makes the storage request, once and right after the pre-hooks, if and
\* only if every pre-hook returned no error.
C17_PreHookEveryId ==
    MultiCall =>
        LET n == Len(call.args)
            t == call.trace
        IN  /\ middlewares.onThen["MultiGet"] = defaultHandler("MultiGet")
            /\ Events("enter") = {} /\ Events("exit") = {}
            /\ Events("pre") = 1..n
            /\ \A i \in 1..n : /\ t[i].q = Query(call.args[i], -1)
                                /\ t[i].err = call.env.pre[i]
            /\ Events("storage") = IF AllPreOk THEN {n + 1} ELSE {}
            /\ \A i \in Events("storage") : t[i].n = n

\* C17's case: interceptors registered on Get, the pre-hook of the first id
\* fails: the pre-hook of the second id is called all the same, and there is
\* no storage request.
C17_Witness ==
    /\ MultiCall
    /\ Len(middlewares.onC["Get"]) = 2
    /\ Len(call.args) = 2
    /\ call.env.pre[1] # Nil
    /\ call.env.pre[2] = Nil
    /\ call.trace[2].ev = "pre" /\ call.trace[2].q = Query(call.args[2], -1)
    /\ Events("storage") = {}

\* The error of the pre-hook/storage phase: the first pre-hook error in the
\* order of ids, else the error of the storage request.
FirstOf(S) == CHOOSE i \in S : \A j \in S : i <= j
PreFailed == {i \in 1..Len(call.args) : call.env.pre[i] # Nil}
GlobalErr ==
    IF PreFailed # {} THEN call.env.pre[FirstOf(PreFailed)]
    ELSE call.trace[Len(call.args) + 1].err
\* The items the storage request returned (none when it was skipped).
StorageItems == IF AllPreOk THEN call.trace[Len(call.args) + 1].items ELSE <<>>
StorageItem(i) == IF Len(StorageItems) >= i THEN StorageItems[i] ELSE NilItem
\* The call of the post-hook for the i-th id, and the error it left.
PostEvent(i) == call.trace[Len(call.trace) - Len(call.args) + i]
FinalErr(i) == PostEvent(i).err

\* C18: after the pre-hook/storage phase MultiGet calls the post-hook once
\* for every id, in the order of ids, as its last calls, whether or not the
\* storage request was made and however many items it returned; the i-th
\* call receives the i-th id's own pre-hook error if it has one and else the
\* global error, and the i-th item of the storage result if there is one
\* (nil otherwise); the error it leaves is the id's final error; in the list
\* handed back, a slot holds the post-hook's item where the hook rewrote it
\* (the id's final error being nil) and the storage item elsewhere.
C18_PostHookEveryId ==
    MultiCall =>
        LET n == Len(call.args)
            t == call.trace
        IN  /\ Events("post") = (Len(t) - n + 1)..Len(t)
            /\ Cardinality(Events("post")) = n
            /\ \A i \in 1..n :
                  /\ PostEvent(i).q = Query(call.args[i], -1)
                  /\ PostEvent(i).inErr = IF call.env.pre[i] # Nil THEN call.env.pre[i]
                                          ELSE GlobalErr
                  /\ PostEvent(i).items = <<StorageItem(i)>>
                  /\ FinalErr(i) = IF call.env.post[i].err = Keep THEN PostEvent(i).inErr
                                   ELSE call.env.post[i].err
            /\ (call.err = Nil) =>
                  /\ Len(call.items) = Len(StorageItems)
                  /\ \A i \in 1..Len(call.items) :
                        /\ FinalErr(i) = Nil
                        /\ call.items[i] = IF call.env.post[i].rewrite
                                           THEN Replacement(StorageItem(i), call.args[i])
                                           ELSE StorageItem(i)
            /\ (call.err # Nil) => (call.items = <<>>)

\* C18's case: two ids whose pre-hooks fail with different errors: no storage
\* request, and the second post-hook receives the second id's own error, not
\* the global one.
C18_Witness ==
    /\ MultiCall
    /\ Len(call.args) = 2
    /\ call.env.pre[1] = resource_ErrForbidden
    /\ call.env.pre[2] = errHook
    /\ Events("storage") = {}
    /\ Cardinality(Events("post")) = 2
    /\ PostEvent(1).inErr = resource_ErrForbidden
    /\ PostEvent(2).inErr = errHook
    /\ PostEvent(2).items = <<NilItem>>

\* The ids whose post-hook left an error other than the one it received, and
\* the ids whose final error is an error other than their own pre-hook error.
ChangedByHook ==
    {i \in 1..Len(call.args) : FinalErr(i) # Nil /\ FinalErr(i) # PostEvent(i).inErr}
DiffersFromOwn ==
    {i \in 1..Len(call.args) : FinalErr(i) # Nil /\ FinalErr(i) # call.env.pre[i]}

\* C19 as stated: the error of MultiGet is the error left by the first
\* post-hook, in the order of ids, that left an error other than the one it
\* received, and the global pre-hook/storage error if no post-hook did.
C19_AsStated ==
    MultiCall =>
        call.err = IF ChangedByHook # {} THEN FinalErr(FirstOf(ChangedByHook)) ELSE GlobalErr

\* C19: the error of MultiGet is the final error of the first id, in the
\* order of ids, whose final error is non-nil and differs from that id's own
\* pre-hook error (nil for an id whose pre-hook succeeded), whether its
\* post-hook set it or left the global error it received; if there is no such
\* id it is the global pre-hook/storage error, which no post-hook can clear.
C19_FirstDifferingError ==
    MultiCall =>
        call.err = IF DiffersFromOwn # {} THEN FinalErr(FirstOf(DiffersFromOwn)) ELSE GlobalErr

\* C19's case: the storage request fails, the first post-hook leaves the
\* error it received and the second sets another: the error of the call is
\* the storage error, kept by the first id.
C19_Witness ==
    /\ MultiCall
    /\ Len(call.args) = 2
    /\ AllPreOk
    /\ GlobalErr = context_Canceled
    /\ call.env.post[1].err = Keep
    /\ FinalErr(2) = errHook
    /\ ChangedByHook = {2}
    /\ call.err = context_Canceled

\* C20: if the final error of any id is non-nil, MultiGet returns a non-nil
\* error; whenever it returns a non-nil error it returns no item at all,
\* whatever the storage request and the post-hooks produced; items come back
\* only with a nil error, and then every id's final error is nil.
C20_ErrorDiscardsItems ==
    MultiCall =>
        /\ (\E i \in 1..Len(call.args) : FinalErr(i) # Nil) =>
              (call.err # Nil /\ call.items = <<>>)
        /\ (call.err # Nil) => (call.items = <<>>)
        /\ (call.items # <<>>) =>
              (call.err = Nil /\ \A i \in 1..Len(call.args) : FinalErr(i) = Nil)

\* C20's case: the storage request returns both items, the first post-hook
\* leaves its item and no error, the second sets an error: no item comes
\* back.
C20_Witness ==
    /\ MultiCall
    /\ Len(call.args) = 2
    /\ Len(StorageItems) = 2
    /\ ~StorageItem(1).nil
    /\ FinalErr(1) = Nil
    /\ FinalErr(2) = errHook
    /\ call.err = errHook
    /\ call.items = <<>>

\* ------------------------------------------------- pipeline: more claims
\* The interceptors of a call, entered in registration order and left in the
\* reverse order around the default handler's calls.
Intercepted(op) ==
    LET c == middlewares.onC[op]
        t == call.trace
        k == Len(c)
    IN  /\ Len(t) >= 2 * k
        /\ \A i \in 1..k : /\ t[i] = EvEnter(c[i], op)
                            /\ t[Len(t) + 1 - i] = EvExit(c[i], op)
        /\ Len(DefTrace(t)) = Len(t) - 2 * k

\* C21: whatever event handlers are attached, a Reduce call makes one call,
\* the storage Reduce with the caller's query and reducer, and no pre- or
\* post-hook call; its error is the error of that storage call, handed up
\* through the registered Reduce interceptors; the storage content is left
\* as it was.
C21_ReduceBypassesHooks ==
    (call.op = "Reduce") =>
        /\ Intercepted("Reduce")
        /\ DefTrace(call.trace) =
              <<EvStorage("Reduce", <<>>, NilItem, call.q, -1,
                          storage_Reduce(call.before, call.q, call.env.fault,
                                         call.env.countErr))>>
        /\ call.err = storage_Reduce(call.before, call.q, call.env.fault, call.env.countErr)
        /\ store = call.before

\* C21's case: a pre-hook that would fail and a post-hook that would set
\* another error are attached, two Reduce interceptors are registered: the
\* Reduce returns the reducer's error.
C21_Witness ==
    /\ call.op = "Reduce"
    /\ Len(middlewares.onC["Reduce"]) = 2
    /\ call.env.preErr = resource_ErrForbidden
    /\ call.env.postErr = Nil
    /\ call.env.countErr = errHook
    /\ call.err = errHook
    /\ Len(DefTrace(call.trace)) = 1

\* The storage calls of a Find, and the outcome of the pre-hook and of the
\* storage Find.
FindCalls(op) ==
    {i \in 1..Len(DefTrace(call.trace)) :
        DefTrace(call.trace)[i].ev = "storage" /\ DefTrace(call.trace)[i].op = op}
NeedsCount ==
    /\ call.forceTotal
    /\ DefTrace(call.trace)[1].err = Nil
    /\ \E i \in FindCalls("Find") :
          DefTrace(call.trace)[i].err = Nil /\ DefTrace(call.trace)[i].n = -1
CountCall == DefTrace(call.trace)[3]
FindPost == DefTrace(call.trace)[Len(DefTrace(call.trace))]
CountsRight ==
    /\ Intercepted("Find")
    /\ (FindCalls("Count") # {}) <=> NeedsCount
    /\ FindCalls("Count") \subseteq {3}
    /\ FindCalls("Find") \subseteq {2}
    /\ NeedsCount =>
          /\ CountCall.q = Query(call.q.Predicate, -1)
          /\ CountCall.n = storage_Count(call.before, Query(call.q.Predicate, -1),
                                         Nil, call.env.countErr).n
          /\ call.list.Total = CountCall.n
          /\ FindPost.n = CountCall.n
          /\ FindPost.inErr = CountCall.err
    /\ (~call.forceTotal) =>
          /\ FindCalls("Count") = {}
          /\ (call.env.postErr = Keep) => (call.err # call.env.countErr \/ call.err = Nil)

\* C22 as stated: FindWithTotal calls the storage Count if and only if the
\* pre-hook and the storage Find succeeded and the Find reported no total;
\* the count request has the predicate of the query and no window; the list's
\* Total is the count; a Count failure is the error of the operation; a plain
\* Find never counts.
C22_AsStated ==
    (call.op = "Find") =>
        /\ CountsRight
        /\ (NeedsCount /\ CountCall.err # Nil) => (call.err = CountCall.err)

\* C22: as above, except for the error: the error of the Count (nil or not)
\* is the error handed to the post-hook, and the error of the operation is
\* what the post-hook leaves: the Count's error unless the post-hook
\* overwrites it.
C22_CountOnlyForTotal ==
    (call.op = "Find") =>
        /\ CountsRight
        /\ NeedsCount =>
              (call.err = IF call.env.postErr = Keep THEN CountCall.err ELSE call.env.postErr)

\* C22's case: a windowed FindWithTotal on a backend that reports no total
\* and cannot count: the count request has no window and its NotImplemented
\* is the error of the operation; and the same query as a plain Find
\* succeeds.
C22_Witness ==
    /\ call.op = "Find"
    /\ call.forceTotal
    /\ call.q.Limit = 1
    /\ NeedsCount
    /\ CountCall.q.Limit = -1
    /\ CountCall.err = resource_ErrNotImplemented
    /\ call.err = resource_ErrNotImplemented

WriteOps == {"Insert", "Update", "Delete"}
\* The call went through an interceptor that returned items of its own.
Swapped == call.env.swap /\ middlewares.onC[call.op] # <<>>
\* The payload the hooks leave in the caller's k-th item, working on it
\* through the pointer.
InPlacePayload(k) ==
    (IF call.env.postEdit
     THEN Edit(IF call.env.preEdit THEN Edit(call.in[k]) ELSE call.in[k])
     ELSE IF call.env.preEdit THEN Edit(call.in[k]) ELSE call.in[k]).Payload

\* C23: Insert, Update and Delete copy the items the handler chain returned
\* over the caller's if and only if the chain returned no error: on success
\* the caller's items are the returned ones, with the edits of the hooks and
\* the items an interceptor substituted; on error the caller's items are not
\* overwritten: they hold what the hooks did to them in place and nothing an
\* interceptor returned.
C23_WriteBackOnSuccess ==
    (call.op \in WriteOps) =>
        /\ call.wroteBack <=> (call.err = Nil)
        /\ Len(call.caller) = Len(call.in)
        /\ (call.err = Nil) =>
              /\ call.caller = call.items
              /\ \A k \in 1..Len(call.in) :
                    call.caller[k].Payload =
                        IF Swapped THEN Edit([call.in[k] EXCEPT !.Payload = InPlacePayload(k)]).Payload
                        ELSE InPlacePayload(k)
        /\ (call.err # Nil) =>
              \A k \in 1..Len(call.in) : call.caller[k].Payload = InPlacePayload(k)

\* C23's case: an Update through an interceptor that returns another item,
\* failing in storage: the caller's item is not the returned one.
C23_Witness ==
    /\ call.op = "Update"
    /\ Swapped
    /\ call.err = resource_ErrConflict
    /\ ~call.wroteBack
    /\ call.caller # call.items
    /\ call.caller[1].Payload = InPlacePayload(1)

\* The first error of the calls before the post-hook (nil if none failed).
FirstErr(d) ==
    LET failed == {i \in 1..(Len(d) - 1) : d[i].err # Nil}
    IN  IF failed = {} THEN Nil ELSE d[CHOOSE i \in failed : \A j \in failed : i <= j].err

\* C24: for Get, Find, Insert, Update, Delete and Clear the error the call
\* returns is the error the post-hook left: the post-hook is handed the first
\* error of the pre-hook, the hashing and the storage calls, and what it leaves
\* (that error when it does not touch it) is returned, through the interceptors
\* too; a storage error the post-hook leaves alone is never returned as nil.
C24_PostHookErrorReturned ==
    (call.op \in HookedOps) =>
        LET d == DefTrace(call.trace)
            n == Len(d)
        IN  /\ d[n].ev = "post"
            /\ call.err = d[n].err
            /\ d[n].inErr = FirstErr(d)
            /\ d[n].err = IF call.env.postErr = Keep THEN FirstErr(d) ELSE call.env.postErr
            /\ \A i \in StorageCalls(d) :
                  (d[i].err # Nil /\ call.env.postErr = Keep) => call.err # Nil

\* C24's case: a Clear through interceptors whose storage call fails and
\* whose post-hook leaves the error alone.
C24_Witness ==
    /\ call.op = "Clear"
    /\ middlewares.onC["Clear"] # <<>>
    /\ call.env.postErr = Keep
    /\ StorageCalls(DefTrace(call.trace)) # {}
    /\ call.err = context_Canceled

\* ------------------------------------------------------ SpecErrors: NewError
\* The errors a handler of the rest package may hand to NewError.
ErrCodes == {400, 404, 412, 422, 520}
ErrMessages == {"test", "Not Found", "context canceled"}
RestErrors ==
    {rest_Error(c, m) : c \in ErrCodes, m \in ErrMessages}
    \cup {rest_ErrNotFound, rest_ErrForbidden, rest_ErrPreconditionFailed, rest_ErrConflict,
          rest_ErrInvalidMethod, rest_ErrClientClosedRequest, rest_ErrNotImplemented,
          rest_ErrGatewayTimeout, rest_ErrUnknown}
Sentinels ==
    {context_Canceled, context_DeadlineExceeded, resource_ErrNotFound, resource_ErrForbidden,
     resource_ErrConflict, resource_ErrNotImplemented, resource_ErrNoStorage}
\* errors.New(m), json's error, a hook's error.
OtherErrors == {Err("other", 0, m) : m \in ErrMessages} \cup {json_UnsupportedTypeError, errHook}
PlainErrors == RestErrors \cup Sentinels \cup OtherErrors
ErrorInputs ==
    {Nil} \cup PlainErrors
    \cup {fmt_Errorf(e) : e \in PlainErrors}
    \cup {fmt_Errorf(fmt_Errorf(e)) : e \in Sentinels \cup {rest_ErrConflict, errHook}}

\* A handler holding err, before and after e, code := NewError(err).
Failing(err) == [op |-> "NewError", in |-> err, done |-> FALSE, err |-> Nil, code |-> 0]
Mapped(f, r) == [f EXCEPT !.done = TRUE, !.err = r.err, !.code = r.code]

DoNewError ==
    /\ put.op = "NewError"
    /\ ~put.done
    /\ put' = Mapped(put, NewError(put.in))
    /\ UNCHANGED <<middlewares, store, call, proc, root, validator>>

InitErrors ==
    /\ middlewares = initMiddlewares
    /\ store = [i \in Ids |-> NilItem]
    /\ call = Idle
    /\ proc = NoProc
    /\ put \in {Failing(e) : e \in ErrorInputs}
    /\ root = NoRoot
    /\ validator = NoValidator

NextErrors == DoNewError

SpecErrors == InitErrors /\ [][NextErrors]_vars

\* The errors of e's chain: e, what it wraps, and so on.
RECURSIVE ChainOf(_)
ChainOf(e) == IF e = Nil THEN {} ELSE {e} \cup (IF e.t = "wrap" THEN ChainOf(e.inner) ELSE {})
\* e is a REST Error, itself or through what it wraps.
IsRestError(e) == \E x \in ChainOf(e) : x.t = "rest"
\* The REST Error nearest to e in its chain.
RECURSIVE NearestRest(_)
NearestRest(e) == IF e.t = "rest" THEN e ELSE NearestRest(e.inner)
NewErrorDone == put # NoPut /\ put.op = "NewError" /\ put.done

\* C25: NewError maps context.Canceled to ErrClientClosedRequest and 499,
\* context.DeadlineExceeded to ErrGatewayTimeout and 504, the resource
\* package's NotFound, Forbidden, Conflict and NotImplemented to the REST
\* errors of the same name and 404, 403, 409 and 501, NoStorage to a REST
\* error with code 501 and its message, nil to (nil, 0); an error that is a
\* REST Error (itself, or through what it wraps) is returned as is with the
\* REST Error's code; every other error, a wrapped sentinel included, to a
\* REST error with code 520 and the error's message.
C25_NewErrorMapping ==
    NewErrorDone =>
        LET e == put.in
            r == <<put.err, put.code>>
        IN  /\ (e = context_Canceled) => r = <<rest_ErrClientClosedRequest, 499>>
            /\ (e = context_DeadlineExceeded) => r = <<rest_ErrGatewayTimeout, 504>>
            /\ (e = resource_ErrNotFound) => r = <<rest_ErrNotFound, 404>>
            /\ (e = resource_ErrForbidden) => r = <<rest_ErrForbidden, 403>>
            /\ (e = resource_ErrConflict) => r = <<rest_ErrConflict, 409>>
            /\ (e = resource_ErrNotImplemented) => r = <<rest_ErrNotImplemented, 501>>
            /\ (e = resource_ErrNoStorage) => r = <<rest_Error(501, e.msg), 501>>
            /\ (e = Nil) => r = <<Nil, 0>>
            /\ IsRestError(e) => r = <<e, NearestRest(e).code>>
            /\ (e # Nil /\ e \notin Sentinels /\ ~IsRestError(e)) =>
                  r = <<rest_Error(520, e.msg), 520>>

\* C25's case: a REST Error handed to NewError inside another error comes
\* back as it was, with the code of the REST Error.
C25_Witness ==
    /\ NewErrorDone
    /\ put.in = fmt_Errorf(rest_ErrConflict)
    /\ put.err = put.in
    /\ put.code = 409

\* ------------------------------------------------------- the resource graph
\* A Go string is the sequence of its bytes, written as one-character
\* strings; the fixed texts of messages are kept whole.
\* regexp.MatchString(`^[A-Za-z0-9_\-]+$`, name)
regexp_MatchString(name) ==
    /\ name # <<>>
    /\ \A i \in 1..Len(name) :
          Byte(name[i]) \in (65..90) \cup (97..122) \cup (48..57) \cup {95, 45}

\* A schema: the fields it has and the error its compilation returns.
NoErr == <<>>
Schema(fields, err) == [Fields |-> fields, err |-> err]
schema_Compile(s) == s.err
schema_GetField(s, field) == field \in s.Fields

\* A map with v under key k.
MapPut(m, k, v) == [x \in (DOMAIN m) \cup {k} |-> IF x = k THEN v ELSE m[x]]
EmptyMap == [x \in {} |-> <<>>]

NilResource == [nil |-> TRUE]
newResource(name, s) ==
    [nil |-> FALSE, name |-> name, path |-> name, parentField |-> "", schema |-> s,
     fallback |-> {}, resources |-> <<>>, aliases |-> EmptyMap, commands |-> EmptyMap]

\* sort.Search(len(sr), func(i) { return sr[i].name >= name }) on [i, j).
RECURSIVE sort_Search(_, _, _, _)
sort_Search(sr, name, i, j) ==
    IF i < j
    THEN IF Less(sr[((i + j) \div 2) + 1].name, name)
         THEN sort_Search(sr, name, ((i + j) \div 2) + 1, j)
         ELSE sort_Search(sr, name, i, (i + j) \div 2)
    ELSE i

get(sr, name) ==
    With(sort_Search(sr, name, 0, Len(sr)), LAMBDA i :
         IF i >= Len(sr) THEN NilResource
         ELSE IF sr[i + 1].name # name THEN NilResource
         ELSE sr[i + 1])

\* add that appends whatever the names.
addLast(sr, rsrc) == Append(sr, rsrc)

add(sr, rsrc) ==
    With({i \in 1..Len(sr) : Less(rsrc.name, sr[i].name)}, LAMBDA greater :
         IF greater = {} THEN Append(sr, rsrc)
         ELSE With(CHOOSE i \in greater : \A j \in greater : i <= j, LAMBDA i :
                   SubSeq(sr, 1, i - 1) \o <<rsrc>> \o SubSeq(sr, i, Len(sr))))

\* TRUE when assertNotBound panics.
assertNotBound(name, resources, aliases) ==
    \/ \E i \in 1..Len(resources) : resources[i].name = name
    \/ name \in DOMAIN aliases

\* What a call on r leaves: whether it panicked, and r afterwards.
Built(panic, r) == [panic |-> panic, r |-> r]

Bind(r, name, field, s) ==
    IF assertNotBound(name, r.resources, r.aliases) THEN Built(TRUE, r)
    ELSE IF ~schema_GetField(s, field) THEN Built(TRUE, r)
    ELSE Built(FALSE,
               [r EXCEPT !.resources =
                             add(@, [newResource(name, s) EXCEPT
                                        !.parentField = field,
                                        !.path = r.path \o <<".">> \o name]),
                         !.fallback = @ \cup {name}])

\* Alias that does not look at what is bound.
AliasUnchecked(r, name, v) == Built(FALSE, [r EXCEPT !.aliases = MapPut(@, name, v)])

Alias(r, name, v) ==
    IF assertNotBound(name, r.resources, r.aliases) THEN Built(TRUE, r)
    ELSE Built(FALSE, [r EXCEPT !.aliases = MapPut(@, name, v)])

Resource_Command(r, name, command) ==
    IF ~regexp_MatchString(name) THEN Built(TRUE, r)
    ELSE IF assertNotBound(name, r.resources, r.aliases) THEN Built(TRUE, r)
    ELSE Built(FALSE, [r EXCEPT !.commands = MapPut(@, name, command)])

\* What Compile returns: the error (its message) and, in order, the paths of
\* the resources whose schema was compiled.
Compiled(err, msg, visited) == [err |-> err, msg |-> msg, visited |-> visited]

\* r.Compile's error handed up by the parent with the name and a dot.
prefixedAlways(name, msg) == name \o <<".">> \o msg

\* if err.Error()[0] == ':' { "%s%s" } else { "%s.%s" }
prefixed(name, msg) ==
    IF Head(msg) = ":" THEN name \o msg ELSE name \o <<".">> \o msg

RECURSIVE Compile(_)
RECURSIVE compileEach(_, _, _)
Compile(r) ==
    IF schema_Compile(r.schema) # NoErr
    THEN Compiled(TRUE, <<":", " schema compilation error: ">> \o schema_Compile(r.schema),
                  <<r.path>>)
    ELSE compileEach(r.resources, 1, <<r.path>>)
\* for _, r := range r.resources, from the i-th on.
compileEach(sr, i, visited) ==
    IF i > Len(sr) THEN Compiled(FALSE, <<>>, visited)
    ELSE With(Compile(sr[i]), LAMBDA c :
              IF c.err
              THEN Compiled(TRUE, prefixed(sr[i].name, c.msg), visited \o c.visited)
              ELSE compileEach(sr, i + 1, visited \o c.visited))

\* ---------------------------------------------------- SpecBind: the graph
MaxBound == 3     \* names bound in the whole graph (sub-resources, aliases, commands)

\* The *Resource a caller holds: the names from the root down to it.
Names(sr) == {sr[i].name : i \in 1..Len(sr)}
Child(r, name) == r.resources[CHOOSE i \in 1..Len(r.resources) : r.resources[i].name = name]
RECURSIVE At(_, _)
At(r, p) == IF p = <<>> THEN r ELSE At(Child(r, Head(p)), Tail(p))
RECURSIVE Replaced(_, _, _)
Replaced(r, p, n) ==
    IF p = <<>> THEN n
    ELSE [r EXCEPT !.resources[CHOOSE i \in 1..Len(r.resources) : r.resources[i].name = Head(p)] =
                       Replaced(@, Tail(p), n)]
RECURSIVE Paths(_)
Paths(r) ==
    {<<>>} \cup UNION {{<<r.resources[i].name>> \o q : q \in Paths(r.resources[i])} :
                          i \in 1..Len(r.resources)}
RECURSIVE SumOver(_, _)
SumOver(f, S) == IF S = {} THEN 0 ELSE LET x == CHOOSE x \in S : TRUE IN f[x] + SumOver(f, S \ {x})
Size(r) ==
    SumOver([p \in Paths(r) |-> Len(At(r, p).resources) + Cardinality(DOMAIN At(r, p).aliases)
                                 + Cardinality(DOMAIN At(r, p).commands)], Paths(r))

BindNames == {<<":", "a">>, <<"B">>, <<"a">>}
CommandNames == {<<"a">>, <<"a", "!">>, <<"_", "-", "1">>, <<>>}
AliasNames == {<<"a">>}
Schemas == {Schema({"user"}, NoErr), Schema({"user"}, <<"bad regexp">>)}
ParentFields == {"user", "owner"}

\* The call made last on the resource at target, and what it returned.
NoCall ==
    [op |-> "new", target |-> <<>>, name |-> <<>>, fieldOk |-> TRUE, panic |-> FALSE,
     before |-> NoRoot, got |-> NilResource, out |-> Compiled(FALSE, <<>>, <<>>)]
Issued(op, target, name, before, o) ==
    [NoCall EXCEPT !.op = op, !.target = target, !.name = name, !.panic = o.panic,
                   !.before = before]

DoBind ==
    /\ call.op = "new"
    /\ \E p \in Paths(root), name \in BindNames, field \in ParentFields, s \in Schemas :
        \E o \in {Bind(At(root, p), name, field, s)} :
            /\ o.panic \/ Size(root) < MaxBound
            /\ root' = Replaced(root, p, o.r)
            /\ call' = [Issued("Bind", p, name, root, o) EXCEPT
                           !.fieldOk = schema_GetField(s, field)]
            /\ UNCHANGED <<middlewares, store, proc, put, validator>>

DoAlias ==
    /\ call.op = "new"
    /\ \E p \in Paths(root), name \in AliasNames, v \in {"v1", "v2"} :
        \E o \in {Alias(At(root, p), name, v)} :
            /\ o.panic \/ Size(root) < MaxBound
            /\ root' = Replaced(root, p, o.r)
            /\ call' = Issued("Alias", p, name, root, o)
            /\ UNCHANGED <<middlewares, store, proc, put, validator>>

DoCommand ==
    /\ call.op = "new"
    /\ \E p \in Paths(root), name \in CommandNames, command \in {"c1"} :
        \E o \in {Resource_Command(At(root, p), name, command)} :
            /\ o.panic \/ Size(root) < MaxBound
            /\ root' = Replaced(root, p, o.r)
            /\ call' = Issued("Command", p, name, root, o)
            /\ UNCHANGED <<middlewares, store, proc, put, validator>>

DoLookup ==
    /\ call.op = "new"
    /\ \E p \in Paths(root), name \in BindNames :
        /\ call' = [NoCall EXCEPT !.op = "get", !.target = p, !.name = name,
                                  !.got = get(At(root, p).resources, name)]
        /\ UNCHANGED <<middlewares, store, proc, put, root, validator>>

DoCompile ==
    /\ call.op = "new"
    /\ \E p \in Paths(root) :
        /\ call' = [NoCall EXCEPT !.op = "Compile", !.target = p, !.out = Compile(At(root, p))]
        /\ UNCHANGED <<middlewares, store, proc, put, root, validator>>

InitBind ==
    /\ middlewares = initMiddlewares
    /\ store = [i \in Ids |-> NilItem]
    /\ call = NoCall
    /\ proc = NoProc
    /\ put = NoPut
    /\ root \in {newResource(<<"r">>, s) : s \in Schemas}
    /\ validator = NoValidator

\* The caller takes what the call returned.
Returned ==
    /\ call.op # "new"
    /\ call' = NoCall
    /\ UNCHANGED <<middlewares, store, proc, put, root, validator>>

NextBind == DoBind \/ DoAlias \/ DoCommand \/ DoLookup \/ DoCompile \/ Returned

SpecBind == InitBind /\ [][NextBind]_vars

\* The names of S in ascending order.
RECURSIVE Ascending(_)
Ascending(S) ==
    IF S = {} THEN <<>>
    ELSE LET m == CHOOSE x \in S : \A y \in S \ {x} : Less(x, y)
         IN  <<m>> \o Ascending(S \ {m})
\* The resources of r's tree, r first and then its sub-resources depth first
\* by ascending name, each as the names that lead from r to it.
RECURSIVE Preorder(_)
RECURSIVE preorderOf(_, _)
Preorder(r) == <<<<>>>> \o preorderOf(r, Ascending(Names(r.resources)))
preorderOf(r, names) ==
    IF names = <<>> THEN <<>>
    ELSE LET below == Preorder(Child(r, Head(names)))
         IN  [k \in 1..Len(below) |-> <<Head(names)>> \o below[k]] \o preorderOf(r, Tail(names))
RECURSIVE JoinDots(_)
JoinDots(names) ==
    IF names = <<>> THEN <<>>
    ELSE IF Len(names) = 1 THEN names[1]
    ELSE names[1] \o <<".">> \o JoinDots(Tail(names))
\* The positions in r's preorder of the resources whose schema fails.
FailingIn(r) == {k \in 1..Len(Preorder(r)) : At(r, Preorder(r)[k]).schema.err # NoErr}
FirstFailing(r) == CHOOSE k \in FailingIn(r) : \A j \in FailingIn(r) : k <= j
CompileCall == call.op = "Compile"
CompiledResource == At(root, call.target)
\* Compile visits the preorder up to the first failure and fails if and only
\* if some schema of the tree does.
CompileStopsAtFirstFailure ==
    LET r == CompiledResource
        pre == Preorder(r)
        n == IF FailingIn(r) = {} THEN Len(pre) ELSE FirstFailing(r)
    IN  /\ call.out.err <=> (FailingIn(r) # {})
        /\ call.out.visited = [k \in 1..n |-> At(r, pre[k]).path]
\* The error names the path to the first failure, and the cause.
CompileNamesThePath ==
    (FailingIn(CompiledResource) # {}) =>
        LET q == Preorder(CompiledResource)[FirstFailing(CompiledResource)]
        IN  call.out.msg = JoinDots(q) \o <<":", " schema compilation error: ">>
                                       \o At(CompiledResource, q).schema.err

\* C26: Resource.Compile compiles the resource's own schema first and then
\* its sub-resources depth first in ascending order of names, stopping at the
\* first failure; it returns an error if and only if some schema of the tree
\* fails to compile, and the error is the names of the sub-resources from the
\* compiled resource down to the failing one joined by dots, then
\* ": schema compilation error: " and the cause.
C26_CompilePathPrefixed ==
    CompileCall => (CompileStopsAtFirstFailure /\ CompileNamesThePath)

\* The same for trees where no sub-resource below the first level has a name
\* that begins with a colon.
CompileOfPlainNames ==
    (CompileCall /\ \A q \in Paths(CompiledResource) : \A k \in 2..Len(q) : Head(q[k]) # ":")
        => (CompileStopsAtFirstFailure /\ CompileNamesThePath)

\* The resource the last call was made on, before and after it.
TargetBefore == At(call.before, call.target)
Target == At(root, call.target)
BoundNow == call.op = "Bind" /\ ~call.panic

\* C27: whatever Binds were made and in whatever order, the sub-resource
\* list of every resource is in strictly ascending order of names and holds
\* the sub-resources bound on it, each once (a Bind adds its sub-resource and
\* keeps the others); the lookup by name returns the sub-resource of that
\* name if one was bound on the resource and nil if none was.
C27_SortedSubResources ==
    /\ \A p \in Paths(root) :
          /\ \A i \in 1..(Len(At(root, p).resources) - 1) :
                Less(At(root, p).resources[i].name, At(root, p).resources[i + 1].name)
          /\ Names(At(root, p).resources) = At(root, p).fallback
    /\ BoundNow =>
          /\ Len(Target.resources) = Len(TargetBefore.resources) + 1
          /\ Names(Target.resources) = Names(TargetBefore.resources) \cup {call.name}
          /\ \A i \in 1..Len(TargetBefore.resources) :
                \E j \in 1..Len(Target.resources) :
                    Target.resources[j] = TargetBefore.resources[i]
    /\ (call.op = "get") =>
          IF call.name \in Target.fallback
          THEN call.got = Child(Target, call.name) /\ call.got.name = call.name
          ELSE call.got = NilResource

\* C27's case: the third sub-resource of the root, bound last, sits between
\* the two bound before it.
C27_Witness ==
    /\ BoundNow
    /\ call.target = <<>>
    /\ Len(root.resources) = 3
    /\ root.resources[2].name = call.name

\* The characters a command name may hold.
CommandChars == {"B", "a", "b", "1", "_", "-"}
Binding == call.op \in {"Bind", "Alias", "Command"}
AlreadyBound ==
    \/ call.name \in Names(TargetBefore.resources)
    \/ call.name \in DOMAIN TargetBefore.aliases
MustPanic ==
    \/ AlreadyBound
    \/ call.op = "Bind" /\ ~call.fieldOk
    \/ call.op = "Command" /\ \E i \in 1..Len(call.name) : call.name[i] \notin CommandChars

StrValue(x) == [t |-> "string", v |-> x]
IntValue(n) == [t |-> "int", v |-> n]
FloatValue(n) == [t |-> "float64", v |-> n]
MapValue(m) == [t |-> "map", v |-> m]
NilValue == [t |-> "nil", v |-> <<>>]

\* Field validators.
String(regexp) == [kind |-> "String", Regexp |-> regexp]
Integer == [kind |-> "Integer"]
Reference(path) == [kind |-> "Reference", Path |-> path]
Object(s) == [kind |-> "Object", Schema |-> s]
NilSchema == [nil |-> TRUE]
schema_Schema(fields) == [nil |-> FALSE, Fields |-> fields]
Field(v, dependency) == [Validator |-> v, Dependency |-> dependency]

\* The fields of s in the order a range over the map s.Fields yields them,
\* order being the order of this run.
Ranged(s, order) == SelectSeq(order, LAMBDA f : f \in DOMAIN s.Fields)

RECURSIVE Object_Compile(_, _, _)
RECURSIVE compileDependencies(_, _)
RECURSIVE Schema_Compile(_, _, _)
RECURSIVE compileFields(_, _, _, _)
RECURSIVE Field_Compile(_, _, _)

\* The first dependency, in the order of the range, that does not compile.
compileDependencies(s, order) ==
    With(SelectSeq(Ranged(s, order), LAMBDA f : s.Fields[f].Dependency = "bad"), LAMBDA bad :
         IF bad = <<>> THEN NoErr ELSE <<"invalid dependency">>)

String_Compile(v) == IF v.Regexp = "bad" THEN <<"invalid regexp">> ELSE NoErr
Reference_Compile(v, rc) ==
    IF v.Path \in rc THEN NoErr ELSE <<"can't find resource '", v.Path, "'">>

\* Field.Compile: validators that are no Compiler count as compiled.
Field_Compile(f, rc, order) ==
    With(CASE f.Validator.kind = "Object" -> Object_Compile(f.Validator, rc, order)
           [] f.Validator.kind = "Reference" -> Reference_Compile(f.Validator, rc)
           [] f.Validator.kind = "String" -> String_Compile(f.Validator)
           [] OTHER -> NoErr,
         LAMBDA err : IF err = NoErr THEN NoErr ELSE <<": ">> \o err)

compileFields(s, names, rc, order) ==
    IF names = <<>> THEN NoErr
    ELSE With(Field_Compile(s.Fields[Head(names)], rc, order), LAMBDA err :
              IF err # NoErr THEN Head(names) \o err
              ELSE compileFields(s, Tail(names), rc, order))

Schema_Compile(s, rc, order) ==
    IF compileDependencies(s, order) # NoErr THEN compileDependencies(s, order)
    ELSE compileFields(s, Ranged(s, order), rc, order)

\* Compile that does not look into the schema.
Object_CompileShallow(v, rc, order) ==
    IF v.Schema = NilSchema THEN <<"no schema defined">> ELSE NoErr

Object_Compile(v, rc, order) ==
    IF v.Schema = NilSchema THEN <<"no schema defined">>
    ELSE IF compileDependencies(v.Schema, order) # NoErr
    THEN compileDependencies(v.Schema, order)
    ELSE Schema_Compile(v.Schema, rc, order)

\* The identifiers the resource at a registered path holds.
ReferenceIDs == {"a", "b"}

\* What Validate returns: the value and the error.
Validated(value, err) == [value |-> value, err |-> err]
ErrorMap(errs) == [t |-> "ErrorMap", errs |-> errs]

RECURSIVE Object_Validate(_, _)
RECURSIVE Schema_Validate(_, _)
RECURSIVE FieldValidator_Validate(_, _)

String_Validate(value) ==
    IF value.t = "string" THEN Validated(value, NoErr)
    ELSE Validated(NilValue, <<"not a string">>)
\* A whole float64 (a JSON number) is taken as the integer.
Integer_Validate(value) ==
    IF value.t = "int" THEN Validated(value, NoErr)
    ELSE IF value.t = "float64" THEN Validated(IntValue(value.v), NoErr)
    ELSE Validated(NilValue, <<"not an integer">>)
Reference_Validate(value) ==
    IF value.t = "string" /\ value.v \in ReferenceIDs THEN Validated(value, NoErr)
    ELSE Validated(NilValue, <<"not found">>)

FieldValidator_Validate(v, value) ==
    CASE v.kind = "Object" -> Object_Validate(v, value)
      [] v.kind = "Reference" -> Reference_Validate(value)
      [] v.kind = "String" -> String_Validate(value)
      [] OTHER -> Integer_Validate(value)

\* Schema.Validate(nil, obj): the document and the errors by field.
Schema_Validate(s, obj) ==
    With({f \in DOMAIN obj : FieldValidator_Validate(s.Fields[f].Validator, obj[f]).err # NoErr},
         LAMBDA failing :
         [doc |-> [f \in DOMAIN obj |->
                      IF f \in failing THEN obj[f]
                      ELSE FieldValidator_Validate(s.Fields[f].Validator, obj[f]).value],
          errs |-> [f \in failing |->
                      <<FieldValidator_Validate(s.Fields[f].Validator, obj[f]).err>>]])

\* Validate that hands back the document along with the errors.
Object_ValidateKeepingValue(v, value) ==
    IF value.t # "map" THEN Validated(NilValue, <<"not an object">>)
    ELSE With(Schema_Validate(v.Schema, value.v), LAMBDA r :
              IF DOMAIN r.errs # {} THEN Validated(MapValue(r.doc), ErrorMap(r.errs))
              ELSE Validated(MapValue(r.doc), NoErr))

Object_Validate(v, value) ==
    IF value.t # "map" THEN Validated(NilValue, <<"not an object">>)
    ELSE With(Schema_Validate(v.Schema, value.v), LAMBDA r :
              IF DOMAIN r.errs # {} THEN Validated(NilValue, ErrorMap(r.errs))
              ELSE Validated(MapValue(r.doc), NoErr))

\* ErrorMap.Error(): the fields in ascending order, each with its errors.
RECURSIVE errorsOf(_, _)
errorsOf(e, names) ==
    IF names = <<>> THEN <<>>
    ELSE <<<<Head(names), " is ", e.errs[Head(names)]>>>> \o errorsOf(e, Tail(names))
ErrorMap_Error(e) == errorsOf(e, Ascending(DOMAIN e.errs))

\* ------------------------------------------------- SpecObject: inputs
FieldNames == {<<"a">>, <<"B">>}
ResourcePaths == {"bar", "foobar"}
NestedSchemas == {NilSchema, schema_Schema((<<"a">> :> Field(Reference("bar"), "none")))}
Validators ==
    {String("ok"), String("bad"), Integer, Reference("bar"), Reference("foobar")}
        \cup {Object(s) : s \in NestedSchemas}
SchemaFields ==
    {Field(v, "none") : v \in Validators}
        \cup {Field(Integer, "bad"), Field(Reference("bar"), "bad")}
MapsOver(K, V) == UNION {[D -> V] : D \in SUBSET K}
Objects == {Object(NilSchema)} \cup {Object(schema_Schema(m)) : m \in MapsOver(FieldNames, SchemaFields)}
\* The orders a range over a map of these fields can take.
Orders == {o \in SeqsOf(FieldNames, Cardinality(FieldNames)) :
              \A i, j \in DOMAIN o : i # j => o[i] # o[j]}
ScalarValues == {StrValue("hello"), StrValue("a"), IntValue(1), FloatValue(1)}
NestedValues == {MapValue(m) : m \in MapsOver(FieldNames, {StrValue("a"), IntValue(1)})}
Values == ScalarValues \cup {MapValue(m) : m \in MapsOver(FieldNames, ScalarValues \cup NestedValues)}

\* value has no field that schema s does not declare, at any depth.
RECURSIVE Fits(_, _)
Fits(s, value) ==
    value.t = "map" =>
        /\ DOMAIN value.v \subseteq DOMAIN s.Fields
        /\ \A f \in DOMAIN value.v :
              s.Fields[f].Validator.kind = "Object" =>
                  Fits(s.Fields[f].Validator.Schema, value.v[f])

\* The paths an error of Compile reports as not found.
Unresolved(err) ==
    {err[i + 1] : i \in {k \in 1..(Len(err) - 1) : err[k] = "can't find resource '"}}

NoObjectCall == [op |-> "new"]
\* The validator, the reference checker's resources, whether the validator has
\* compiled, the paths a compilation did not find, and the last call.
Validator(v, rc, compiled, missed, last) ==
    [v |-> v, rc |-> rc, compiled |-> compiled, missed |-> missed, last |-> last]

\* A resource is registered with the reference checker.
DoRegister ==
    /\ validator # NoValidator
    /\ \E path \in ResourcePaths \ validator.rc :
          validator' = [validator EXCEPT !.rc = @ \cup {path},
                                         !.last = [op |-> "Register", path |-> path]]
    /\ UNCHANGED <<middlewares, store, call, proc, put, root>>

DoObjectCompile ==
    /\ validator # NoValidator
    /\ \E order \in Orders :
          \E err \in {Object_Compile(validator.v, validator.rc, order)} :
             validator' = [validator EXCEPT
                              !.compiled = (err = NoErr),
                              !.missed = @ \cup Unresolved(err),
                              !.last = [op |-> "Compile", order |-> order, err |-> err]]
    /\ UNCHANGED <<middlewares, store, call, proc, put, root>>

\* Validate is called on a validator that has compiled.
DoObjectValidate ==
    /\ validator # NoValidator
    /\ validator.compiled
    /\ \E value \in Values :
          /\ Fits(validator.v.Schema, value)
          /\ \E out \in {Object_Validate(validator.v, value)} :
                validator' = [validator EXCEPT
                                 !.last = [op |-> "Validate", value |-> value, out |-> out]]
    /\ UNCHANGED <<middlewares, store, call, proc, put, root>>

InitObject ==
    /\ middlewares = initMiddlewares
    /\ store = [i \in Ids |-> NilItem]
    /\ call = Idle
    /\ proc = NoProc
    /\ put = NoPut
    /\ root = NoRoot
    /\ validator \in {Validator(v, {}, FALSE, {}, NoObjectCall) : v \in Objects}

NextObject == DoRegister \/ DoObjectCompile \/ DoObjectValidate

SpecObject == InitObject /\ [][NextObject]_vars

\* ------------------------------------------------- claims C29, C30
ObjectCompiled == validator # NoValidator /\ validator.last.op = "Compile"
ObjectValidated == validator # NoValidator /\ validator.last.op = "Validate"

\* Validator v compiles against the resources rc.
RECURSIVE Compiles(_, _)
Compiles(v, rc) ==
    CASE v.kind = "Object" ->
            /\ v.Schema # NilSchema
            /\ \A f \in DOMAIN v.Schema.Fields :
                  /\ v.Schema.Fields[f].Dependency # "bad"
                  /\ Compiles(v.Schema.Fields[f].Validator, rc)
      [] v.kind = "Reference" -> v.Path \in rc
      [] v.kind = "String" -> v.Regexp # "bad"
      [] OTHER -> TRUE
\* Some dependency of schema s does not compile.
BadDependency(s) == \E f \in DOMAIN s.Fields : s.Fields[f].Dependency = "bad"
\* The fields of s whose validator does not compile.
FailingFields(s, rc) == {f \in DOMAIN s.Fields : ~Compiles(s.Fields[f].Validator, rc)}
\* The fields of s that are a Reference to a path that is not among rc.
DanglingFields(s, rc) ==
    {f \in DOMAIN s.Fields :
        /\ s.Fields[f].Validator.kind = "Reference"
        /\ s.Fields[f].Validator.Path \notin rc}
\* The error that names field f and the path it refers to.
CantFind(s, f) == f \o <<": ", "can't find resource '", s.Fields[f].Validator.Path, "'">>

\* C29, as stated: Compile fails if and only if some nested field validator
\* fails to compile, and a Reference to a path the checker does not hold is
\* reported by an error naming the field and the path.
C29_AsStated ==
    (ObjectCompiled /\ validator.v.Schema # NilSchema) =>
        /\ (validator.last.err # NoErr) <=> (FailingFields(validator.v.Schema, validator.rc) # {})
        /\ DanglingFields(validator.v.Schema, validator.rc) # {} =>
              \E f \in DanglingFields(validator.v.Schema, validator.rc) :
                 validator.last.err = CantFind(validator.v.Schema, f)

\* C29: Compile of an Object without a schema fails with 'no schema defined';
\* otherwise it fails if and only if a dependency of a field or some nested
\* field validator fails to compile; a Reference to a path the checker does not
\* hold makes it fail, with an error naming the field and the path when that
\* field is all that fails; Compile succeeds once every such path is registered
\* and nothing else fails.
C29_CompileFailsWithSchema ==
    ObjectCompiled =>
        IF validator.v.Schema = NilSchema
        THEN validator.last.err = <<"no schema defined">>
        ELSE /\ (validator.last.err # NoErr) <=>
                   \/ BadDependency(validator.v.Schema)
                   \/ FailingFields(validator.v.Schema, validator.rc) # {}
             /\ DanglingFields(validator.v.Schema, validator.rc) # {} =>
                   /\ validator.last.err # NoErr
                   /\ \A f \in DanglingFields(validator.v.Schema, validator.rc) :
                         (/\ ~BadDependency(validator.v.Schema)
                          /\ FailingFields(validator.v.Schema, validator.rc) = {f})
                             => validator.last.err = CantFind(validator.v.Schema, f)
             /\ (/\ validator.missed # {}
                 /\ validator.missed \subseteq validator.rc
                 /\ ~BadDependency(validator.v.Schema)
                 /\ FailingFields(validator.v.Schema, validator.rc \cup ResourcePaths)
                       = {})
                   => validator.last.err = NoErr

\* A schema whose Reference was not found compiles after the path is registered.
C29_Witness ==
    /\ ObjectCompiled
    /\ validator.last.err = NoErr
    /\ \E f \in DOMAIN validator.v.Schema.Fields :
          /\ validator.v.Schema.Fields[f].Validator.kind = "Reference"
          /\ validator.v.Schema.Fields[f].Validator.Path \in validator.missed

\* The fields of the validated object that their validator rejects.
Rejected ==
    {f \in DOMAIN validator.last.value.v :
        FieldValidator_Validate(validator.v.Schema.Fields[f].Validator,
                                validator.last.value.v[f]).err # NoErr}

\* C30: Validate of a value that is no object returns 'not an object'; when
\* fields fail it returns no value and an error map with an entry for exactly
\* each failing field, reported in ascending order of the field names; when no
\* field fails it returns the validated object and no error.
C30_ValidateReportsFields ==
    ObjectValidated =>
        IF validator.last.value.t # "map"
        THEN validator.last.out = Validated(NilValue, <<"not an object">>)
        ELSE IF Rejected # {}
        THEN /\ validator.last.out.value = NilValue
             /\ validator.last.out.err.t = "ErrorMap"
             /\ DOMAIN validator.last.out.err.errs = Rejected
             /\ \A i, j \in DOMAIN ErrorMap_Error(validator.last.out.err) :
                   i < j => Less(ErrorMap_Error(validator.last.out.err)[i][1],
                                 ErrorMap_Error(validator.last.out.err)[j][1])
             /\ {ErrorMap_Error(validator.last.out.err)[i][1] :
                    i \in DOMAIN ErrorMap_Error(validator.last.out.err)} = Rejected
        ELSE /\ validator.last.out.err = NoErr
             /\ validator.last.out.value.t = "map"
             /\ DOMAIN validator.last.out.value.v = DOMAIN validator.last.value.v
             /\ \A f \in DOMAIN validator.last.value.v :
                   validator.last.out.value.v[f] =
                      FieldValidator_Validate(validator.v.Schema.Fields[f].Validator,
                                              validator.last.value.v[f]).value

\* Two fields fail and both are reported.
C30_Witness ==
    /\ ObjectValidated
    /\ validator.last.value.t = "map"
    /\ Cardinality(Rejected) = 2
    /\ validator.last.out.value = NilValue

\* ------------------------------------------------- SpecEtag: hashing payloads
\* A Go map: what it holds and the order in which a range meets its keys,
\* here the order in which the keys were inserted.
GoMap(at, order) == [at |-> at, order |-> order]
EmptyMap2 == <<GoMap(EmptyPayload, <<>>), GoMap(EmptyPayload, <<>>)>>
EtagVals == {"x", "y", Unmarshalable}

\* m[key] = val
MapSet(m, key, val) ==
    GoMap([m.at EXCEPT ![key] = val],
          IF m.at[key] = Absent THEN Append(m.order, key) ELSE m.order)

\* One of the two payloads gets a field.
DoSet ==
    /\ call.op \in {"maps", "GenEtag"}
    /\ \E k \in 1..2, key \in Fields, val \in EtagVals :
          call' = [op |-> "maps",
                   maps |-> [call.maps EXCEPT ![k] = MapSet(@, key, val)],
                   before |-> call.maps, out |-> <<>>]
    /\ UNCHANGED <<middlewares, store, proc, put, root, validator>>

\* GenEtag of both payloads.
DoGenEtag ==
    /\ call.op = "maps"
    /\ call' = [op |-> "GenEtag", maps |-> call.maps, before |-> call.maps,
                out |-> [k \in 1..2 |->
                            GenEtagRanged(call.maps[k].at, call.maps[k].order)]]
    /\ UNCHANGED <<middlewares, store, proc, put, root, validator>>

InitEtag ==
    /\ middlewares = initMiddlewares
    /\ store = [i \in Ids |-> NilItem]
    /\ call = [op |-> "maps", maps |-> EmptyMap2, before |-> EmptyMap2, out |-> <<>>]
    /\ proc = NoProc
    /\ put = NoPut
    /\ root = NoRoot
    /\ validator = NoValidator

NextEtag == DoSet \/ DoGenEtag

SpecEtag == InitEtag /\ [][NextEtag]_vars

\* C31: GenEtag is a function of what the payload holds: two payloads that
\* hold the same fields with the same values get the same hash and the same
\* error whatever the order in which their fields were inserted, the hash is
\* the one of any other run on that content, and the payloads are after the
\* call what they were before it.
C31_EtagOfContent ==
    call.op = "GenEtag" =>
        /\ call.maps = call.before
        /\ \A k \in 1..2 : call.out[k] = GenEtag(call.maps[k].at)
        /\ (call.maps[1].at = call.maps[2].at) => (call.out[1] = call.out[2])
        /\ \A k \in 1..2 :
              (call.out[k].err = Nil) <=>
                 (\A f \in Fields : call.maps[k].at[f] # Unmarshalable)

\* Two payloads with the same content, filled in different orders, are hashed.
C31_Witness ==
    /\ call.op = "GenEtag"
    /\ call.maps[1].at = call.maps[2].at
    /\ call.maps[1].order # call.maps[2].order
    /\ call.out[1].err = Nil
    /\ call.out[1] = call.out[2]

\* ------------------------------------------------- claim C32
\* The storage request was made and succeeded.
StorageOk == AllPreOk /\ call.trace[Len(call.args) + 1].err = Nil
\* Every post-hook set the error it was given to nil.
AllReset == \A i \in 1..Len(call.args) : call.env.post[i].err = Nil

\* C32: MultiGet returns no error if and only if every pre-hook succeeded, the
\* storage request succeeded and every post-hook left no error; a pre-hook or
\* storage failure always ends in an error and no items, and when every
\* post-hook resets its error to nil the error returned is that failure.
C32_NilIffAllSucceeded ==
    MultiCall =>
        /\ (call.err = Nil) <=>
              (AllPreOk /\ StorageOk /\ \A i \in 1..Len(call.args) : FinalErr(i) = Nil)
        /\ (~AllPreOk \/ ~StorageOk) =>
              /\ call.err # Nil
              /\ call.items = <<>>
              /\ AllReset => call.err = GlobalErr

\* A pre-hook fails and every post-hook resets its error: the pre-hook's error
\* is returned.
C32_Witness ==
    /\ MultiCall
    /\ Len(call.args) = 2
    /\ PreFailed = {2}
    /\ AllReset
    /\ \A i \in 1..2 : FinalErr(i) = Nil
    /\ call.err = call.env.pre[2]
    /\ call.items = <<>>

\* ------------------------------------------------- claim C33
MutatingOps == {"Insert", "Update", "Delete", "Clear"}
\* The steps at which a request ends before it calls Insert or Update.
EarlySteps ==
    {"decode", "fetch", "mode", "integrity", "command", "prepare", "validate", "newItem"}
\* The calls of the request that reached the backend after its i-th call.
BackendCallsAfter(i) ==
    {j \in 1..Len(put.out.calls) : j > i /\ put.out.calls[j].ev = "storage"}

\* The storage content when the request has written nothing: what it was, with
\* the other writers' changes once the request has fetched.
StoreAsLeft ==
    IF HasStep("fetch") THEN afterFetch(put.before, put.r, put.env) ELSE put.before

\* C33: a PUT makes at most one mutating storage call, an Insert or an Update;
\* it makes none when it ends with an error before the pipeline's Insert or
\* Update (at the decoding, the fetch, the mode check, the integrity check, the
\* command, the validation, the identity check or the making of the item), and
\* the storage content is then what it was; after a storage write that
\* returned an error the request makes no storage call at all and ends with an
\* error.
C33_AtMostOneWrite ==
    (put.op = "PUT") =>
        /\ Cardinality(BackendCalls(MutatingOps)) <= 1
        /\ BackendCalls({"Delete", "Clear"}) = {}
        /\ BackendCalls({"Insert"}) # {} => (HasStep("insert") /\ ~HasStep("update"))
        /\ BackendCalls({"Update"}) # {} => (HasStep("update") /\ ~HasStep("insert"))
        /\ (put.out.err # Nil /\ LastStep \in EarlySteps) =>
              /\ BackendCalls(MutatingOps) = {}
              /\ PreHookCalls(MutatingOps) = {}
              /\ put.out.store = StoreAsLeft
        /\ \A i \in BackendCalls(MutatingOps) :
              put.out.calls[i].err # Nil =>
                 /\ put.out.err # Nil
                 /\ BackendCallsAfter(i) = {}
                 /\ put.out.store = StoreAsLeft

\* The storage Update of a request fails under a cancelled context.
C33_Witness ==
    /\ put.op = "PUT"
    /\ \E i \in BackendCalls({"Update"}) : put.out.calls[i].err = context_Canceled
    /\ put.out.err # Nil
    /\ Cardinality(BackendCalls(MutatingOps)) = 1

\* ------------------------------------------------- claim C34
\* The error rsrc.Find returned to the handler: the one its post-hook left.
FetchErr ==
    put.out.calls[FirstOf({i \in 1..Len(put.out.calls) :
                              put.out.calls[i].ev = "post" /\ put.out.calls[i].op = "Find"})].err
CommandRequest == CommandPut /\ put.r.bad = "" /\ ~put.out.panic
LaterSteps == {"prepare", "validate", "newItem", "insert", "update", "respond"}

\* C34: on a command route the command runs only after the fetch returned an
\* original without error and the integrity check passed; a fetch error ends
\* the request with that error as NewError maps it, an empty fetch with
\* NotFound, a failed precondition with 412, each without running the command;
\* an error of the command ends the request with that error, without Prepare,
\* Validate, or any call of the pipeline's Update, the storage left as it was.
C34_CommandAfterChecks ==
    CommandRequest =>
        /\ HasStep("command") =>
              /\ FetchErr = Nil
              /\ ~FetchedItem.nil
              /\ put.out.original = FetchedItem
              /\ ~Mismatch
              /\ Before("fetch", "integrity") /\ Before("integrity", "command")
        /\ (FetchErr # Nil) =>
              /\ put.out.steps = <<"fetch">>
              /\ put.out.err = NewError(FetchErr).err
              /\ put.out.status = NewError(FetchErr).code
        /\ (FetchErr = Nil /\ FetchedItem.nil) =>
              /\ put.out.steps = <<"fetch">>
              /\ put.out.err = rest_ErrNotFound
              /\ put.out.status = 404
        /\ (FetchErr = Nil /\ ~FetchedItem.nil /\ Mismatch) =>
              /\ put.out.steps = <<"fetch", "integrity">>
              /\ put.out.status = 412
        /\ (HasStep("command") /\ put.r.command.err # Nil) =>
              /\ LastStep = "command"
              /\ \A step \in LaterSteps : ~HasStep(step)
              /\ put.out.err = NewError(put.r.command.err).err
              /\ put.out.status = NewError(put.r.command.err).code
              /\ PreHookCalls(MutatingOps) = {}
              /\ BackendCalls(MutatingOps) = {}
              /\ put.out.store = StoreAsLeft

\* A command that returns an error after a fetch and a check that passed.
C34_Witness ==
    /\ CommandRequest
    /\ HasStep("command")
    /\ put.r.command.err # Nil
    /\ put.r.ifMatch # NoEtag
    /\ put.out.err = NewError(put.r.command.err).err

\* ------------------------------------------------- claim C35
\* The arguments of a Chain call in the order the call meets them, the lists
\* replaced by their elements.
RECURSIVE Flatten(_)
Flatten(args) ==
    IF args = <<>> THEN <<>>
    ELSE (IF Head(args).t = "list" THEN Flatten(Head(args).elems) ELSE <<Head(args).t>>)
         \o Flatten(Tail(args))
\* The arguments met before the first one of a type Chain has no case for.
RECURSIVE KnownPrefix(_)
KnownPrefix(ts) ==
    IF ts = <<>> \/ Head(ts) \notin ChainKinds THEN <<>>
    ELSE <<Head(ts)>> \o KnownPrefix(Tail(ts))
ChainCall == call.op = "Chain"
Met == KnownPrefix(Flatten(call.args))
CountOf(k) == Cardinality({i \in 1..Len(Met) : Met[i] = k})

\* C35: a Chain call changes the registration list and the composed handler of
\* the kinds of the interceptors it registered and of no other kind, and never
\* the MultiGet handler; it panics if and only if it meets an argument of a
\* type that is no interceptor of these kinds, and the interceptors it met
\* before that argument stay registered, each list keeping what it held.
C35_ChainFrame ==
    ChainCall =>
        /\ \A k \in ChainKinds :
              /\ CountOf(k) = 0 =>
                    /\ middlewares.onC[k] = call.before.onC[k]
                    /\ middlewares.onThen[k] = call.before.onThen[k]
              /\ Len(middlewares.onC[k]) = Len(call.before.onC[k]) + CountOf(k)
              /\ SubSeq(middlewares.onC[k], 1, Len(call.before.onC[k])) = call.before.onC[k]
              /\ middlewares.onThen[k].chain = middlewares.onC[k]
        /\ middlewares.onThen["MultiGet"] = call.before.onThen["MultiGet"]
        /\ middlewares.onThen["MultiGet"] = defaultHandler("MultiGet")
        /\ call.panic <=> (Len(Met) < Len(Flatten(call.args)))

\* A Chain call that panics on its second argument, an interceptor of MultiGet,
\* after it registered the first.
C35_Witness ==
    /\ ChainCall
    /\ call.panic
    /\ Len(Met) = 1
    /\ Flatten(call.args) = <<Met[1], "MultiGet">>
    /\ Len(middlewares.onC[Met[1]]) = Len(call.before.onC[Met[1]]) + 1
    /\ middlewares.onThen[Met[1]].chain = middlewares.onC[Met[1]]
    /\ middlewares.onThen["MultiGet"] = defaultHandler("MultiGet")

\* ------------------------------------------------------- rest: GET on item
\* Times of documents are counted in ticks; an HTTP date holds whole seconds.
TicksPerSecond == 2
\* time.Time.Truncate(time.Second)
Truncate(t) == t - (t % TicksPerSecond)

\* A header that holds a date: not sent, sent with a text that is no RFC1123
\* date, or sent with the date of a whole second.
NoHeader == [sent |-> FALSE, valid |-> FALSE, sec |-> 0]
BadDate == [sent |-> TRUE, valid |-> FALSE, sec |-> 0]
HTTPDate(sec) == [sent |-> TRUE, valid |-> TRUE, sec |-> sec]
\* time.Parse(time.RFC1123, header)
time_Parse(header) ==
    IF header.valid THEN [t |-> header.sec * TicksPerSecond, err |-> Nil]
    ELSE [t |-> 0, err |-> Err("other", 0, "parsing time")]

\* The GET request: whether its URL parameters are in error, the id in the
\* path, the value the filter parameter asks of field "a" (Absent: no
\* filter), the If-None-Match and If-Modified-Since headers and the fields of
\* the projection.
GetRequest(bad, id, filter, ifNoneMatch, ifModSince, projection) ==
    [bad |-> bad, id |-> id, filter |-> filter, ifNoneMatch |-> ifNoneMatch,
     ifModSince |-> ifModSince, projection |-> projection]

\* route.Query(): the predicate on the id of the path, and the filter's.
route_Query(r) ==
    [q |-> IF r.filter = Absent THEN Query(r.id, -1)
           ELSE [Predicate |-> r.id, Limit |-> -1, Filter |-> r.filter],
     err |-> IF r.bad THEN rest_Error(422, "URL parameters contain error(s)") ELSE Nil]
\* len(q.Predicate)
NumPredicates(q) == IF "Filter" \in DOMAIN q THEN 2 ELSE 1

\* compareEtag: the header is sent and holds the hash.
compareEtag(etag, baseEtag) == etag # NoEtag /\ etag = baseEtag

\* What the hooks and the backend do in the read, and the error of
\* q.Projection.Eval (Nil: none).
GetEnv(read, projErr) == [read |-> read, projErr |-> projErr]

\* itemGet, the projection and the answer
getProject(o, r, env, item) ==
    IF env.projErr # Nil THEN FailWith(Step(o, "project"), env.projErr)
    ELSE [Step(o, "project") EXCEPT
            !.status = 200, !.withItem = TRUE,
            !.item = [item EXCEPT !.Payload = Projection_Eval(r.projection, item.Payload)]]

\* The same as getConditional with If-Modified-Since looked at before
\* If-None-Match.
getConditionalDateFirst(o, r, env, item) ==
    IF r.ifModSince.sent /\ time_Parse(r.ifModSince).err # Nil
    THEN Fail(Step(o, "date"), 400, rest_Error(400, "Invalid If-Modified-Since header"))
    ELSE IF r.ifModSince.sent /\ Truncate(item.Updated) <= time_Parse(r.ifModSince).t
    THEN [Step(o, "date") EXCEPT !.status = 304, !.noBody = TRUE]
    ELSE IF compareEtag(r.ifNoneMatch, item.ETag)
    THEN [Step(o, "etag") EXCEPT !.status = 304, !.noBody = TRUE]
    ELSE getProject(o, r, env, item)

\* itemGet, the conditional request: If-None-Match, then If-Modified-Since
getConditional(o, r, env, item) ==
    IF compareEtag(r.ifNoneMatch, item.ETag)
    THEN [Step(o, "etag") EXCEPT !.status = 304, !.noBody = TRUE]
    ELSE IF r.ifModSince.sent
    THEN (IF time_Parse(r.ifModSince).err # Nil
          THEN Fail(Step(o, "date"), 400, rest_Error(400, "Invalid If-Modified-Since header"))
          ELSE IF Truncate(item.Updated) <= time_Parse(r.ifModSince).t
          THEN [Step(o, "date") EXCEPT !.status = 304, !.noBody = TRUE]
          ELSE getProject(o, r, env, item))
    ELSE getProject(o, r, env, item)

\* itemGet, after rsrc.Find returned f: len(list.Items) of a nil list panics.
getFound(o, r, env, f) ==
    With([Step(o, "find") EXCEPT !.calls = f.trace, !.store = f.store], LAMBDA o1 :
         IF f.err # Nil THEN FailWith(o1, f.err)
         ELSE IF f.list.nil THEN [o1 EXCEPT !.panic = TRUE]
         ELSE IF Len(f.list.Items) = 0 THEN Fail(o1, rest_ErrNotFound.code, rest_ErrNotFound)
         ELSE getConditional([o1 EXCEPT !.original = f.list.Items[1]], r, env,
                             f.list.Items[1]))

\* itemGet, after rsrc.Get returned g
getGot(o, r, env, g) ==
    With([Step(o, "get") EXCEPT !.calls = g.trace, !.store = g.store], LAMBDA o1 :
         IF g.err # Nil THEN FailWith(o1, g.err)
         ELSE IF g.items[1].nil THEN Fail(o1, rest_ErrNotFound.code, rest_ErrNotFound)
         ELSE getConditional([o1 EXCEPT !.original = g.items[1]], r, env, g.items[1]))

\* q.Window = &query.Window{Limit: 1}
limitOne(q) == [q EXCEPT !.Limit = 1]

itemGet(mw, st, r, env) ==
    With(route_Query(r), LAMBDA rq :
         IF rq.err # Nil THEN Fail(Step(PutOut(st), "query"), rq.err.code, rq.err)
         ELSE IF NumPredicates(rq.q) > 1
         THEN getFound(Step(PutOut(st), "query"), r, env,
                       Find(mw, st, limitOne(rq.q), env.read))
         ELSE getGot(Step(PutOut(st), "query"), r, env, Get(mw, st, r.id, env.read)))

\* ------------------------------------------------- SpecGet: one GET request
\* A GET on /items/{id} against a resource holding one document, "i1", last
\* updated half a second after second 1; "i2" does not exist.
GetStore0 ==
    [i \in Ids |-> IF i = "i1" THEN [Stored(i, "x") EXCEPT !.Updated = TicksPerSecond + 1]
                   ELSE NilItem]
DateHeaders == {NoHeader, BadDate} \cup {HTTPDate(sec) : sec \in 0..2}
GetRequests ==
    {GetRequest(bad, id, filter, inm, ims, proj) :
        bad \in BOOLEAN, id \in Ids, filter \in Vals \cup {Absent},
        inm \in {NoEtag} \cup {Stored("i1", a).ETag : a \in Vals},
        ims \in DateHeaders, proj \in Projections}
\* The hooks and the backend of the read: none, a cancelled context, a
\* pre-hook that refuses, a post-hook that edits the item, one that sets an
\* error, and one that clears the error of a read that failed or found
\* nothing.
GetReadEnvs ==
    {NoHooks, [NoHooks EXCEPT !.fault = context_Canceled],
     [NoHooks EXCEPT !.preErr = resource_ErrForbidden],
     [NoHooks EXCEPT !.postEdit = TRUE], [NoHooks EXCEPT !.postErr = errHook],
     [NoHooks EXCEPT !.postErr = Nil],
     [NoHooks EXCEPT !.fault = context_Canceled, !.postErr = Nil]}
ItemGetEnvs == {GetEnv(read, projErr) : read \in GetReadEnvs, projErr \in {Nil, errHook}}

IdleGet ==
    [op |-> "idle", r |-> GetRequest(FALSE, "i1", Absent, NoEtag, NoHeader, {}),
     env |-> GetEnv(NoHooks, Nil), before |-> GetStore0, out |-> PutOut(GetStore0)]

DoItemGet ==
    /\ put.op = "idle"
    /\ \E r \in GetRequests, env \in ItemGetEnvs :
          /\ put' = [op |-> "GET", r |-> r, env |-> env, before |-> store,
                     out |-> itemGet(middlewares, store, r, env)]
          /\ store' = put'.out.store
    /\ UNCHANGED <<middlewares, call, proc, root, validator>>

InitGet ==
    /\ middlewares \in ServingMiddlewares
    /\ store = GetStore0
    /\ call = Idle
    /\ proc = NoProc
    /\ put = IdleGet
    /\ root = NoRoot
    /\ validator = NoValidator

NextGet == DoItemGet

SpecGet == InitGet /\ [][NextGet]_vars

\* ------------------------------------------------- claim C36
GetServed == put.op = "GET"
Filtered == put.r.filter # Absent
\* The calls of the request that reached the backend.
ReadsOfBackend == {i \in 1..Len(put.out.calls) : put.out.calls[i].ev = "storage"}
\* The error the read returned to the handler: the one its post-hook left.
ReadErr ==
    put.out.calls[FirstOf({i \in 1..Len(put.out.calls) : put.out.calls[i].ev = "post"})].err
\* The read came to no document: the backend was not asked or did not
\* answer, or it holds no document of that id that passes the filter.
NoDocument ==
    \/ put.env.read.preErr # Nil
    \/ put.env.read.fault # Nil
    \/ put.before[put.r.id].nil
    \/ Filtered /\ put.before[put.r.id].Payload["a"] # put.r.filter
\* The item the read returns: the stored document, as the post-hook leaves it.
ReadItem ==
    IF NoDocument THEN NilItem
    ELSE IF put.env.read.postEdit THEN Edit(put.before[put.r.id])
    ELSE put.before[put.r.id]
\* Find returned neither a list nor an error.
NoList == Filtered /\ (put.env.read.preErr # Nil \/ put.env.read.fault # Nil)
EtagMatches == put.r.ifNoneMatch # NoEtag /\ put.r.ifNoneMatch = ReadItem.ETag
NotModified ==
    /\ put.r.ifModSince.sent /\ put.r.ifModSince.valid
    /\ Truncate(ReadItem.Updated) <= put.r.ifModSince.sec * TicksPerSecond
NotModified304 ==
    /\ put.out.status = 304 /\ put.out.err = Nil
    /\ put.out.noBody /\ ~put.out.withItem
Answer200 ==
    /\ put.out.status = 200 /\ put.out.err = Nil /\ put.out.withItem
    /\ put.out.item.ID = ReadItem.ID /\ put.out.item.ETag = ReadItem.ETag
    /\ \A f \in Fields :
          put.out.item.Payload[f] =
             IF put.r.projection = {} \/ f \in put.r.projection
             THEN ReadItem.Payload[f] ELSE Absent
AnswersError(err) ==
    /\ put.out.err = NewError(err).err
    /\ put.out.status = NewError(err).code
    /\ ~put.out.withItem
ReadAsRouted ==
    /\ \A i \in 1..Len(put.out.calls) :
          put.out.calls[i].op = IF Filtered THEN "Find" ELSE "Get"
    /\ \A i \in ReadsOfBackend :
          put.out.calls[i].q =
             IF Filtered
             THEN [Predicate |-> put.r.id, Limit |-> 1, Filter |-> put.r.filter]
             ELSE Query(put.r.id, -1)
    /\ put.out.store = put.before

====
